---- MODULE Spec2Model ----
(***************************************************************************)
(* Re-Pair (Bille, Goertz, Prezza): the in-place Re-Pair engine of rp.cpp, *)
(* the skippable text, the array of text positions, the high-frequency    *)
(* and the low-frequency pair queues, the linked list ll_vec behind the    *)
(* low-frequency queue, and the stack-based decompressor.                  *)
(*                                                                         *)
(* Indices are 0-based as in the C++ code; sequences of TLA+ are 1-based,  *)
(* so element i of a vector v is v[i+1].                                   *)
(***************************************************************************)
EXTENDS Integers, Sequences, FiniteSets, TLC

VARIABLES
    pc,        \* position of main / compute_repair / decompress
    w,         \* the input file: a sequence of byte values
    A,         \* alphabet (mapping int -> ascii)
    T,         \* skippable text
    TP,        \* text positions (array TP and scratch table H)
    HFQ,       \* high-frequency queue
    LFQ,       \* low-frequency queue
    X,         \* next free dictionary symbol
    G,         \* grammar
    T_vec,     \* compressed text
    last_freq, \* frequency of the pair replaced by the last substitution round
    rounds,    \* number of substitution rounds done in the current phase
    S,         \* stack of decompress (rp.cpp); the top is the last element
    i_dec,     \* loop index of decompress (rp.cpp)
    out,       \* bytes written by decompress (rp.cpp)
    S2,        \* stack of decompress (repair-decompress.cpp)
    out2,      \* string T built by decompress (repair-decompress.cpp)
    q,         \* a low-frequency queue driven on its own
    q_prev,    \* that queue before the last operation
    q_op,      \* the last operation applied to that queue
    ops,       \* number of operations applied to that queue
    cmd,       \* the command line of main, its locals and its exit
    n_file     \* n of compute_repair: the size of the file, as an itype

vars == <<pc, w, A, T, TP, HFQ, LFQ, X, G, T_vec, last_freq, rounds,
          S, i_dec, out, S2, out2, q, q_prev, q_op, ops, cmd, n_file>>

(***************************************************************************)
(* Bounds of the model                                                     *)
(***************************************************************************)
\* longest input file
MaxLen == 9
\* number of operations applied to the low-frequency queue driven on its own
MaxOps == 7
\* largest frequency of that queue
MaxFreq == 3
\* calls made on the high-frequency queue driven on its own
MaxHfOps == 5
\* longest text handled on its own
MaxText == 6
\* longest file name given on the command line
MaxName == 4
\* longest file whose size is read on its own
MaxFile == 33
\* width of the index type itype when the size of a file is read on its own
\* (itype is uint32_t in rp.cpp)
itype_bits == 3
\* calls made on the linked list driven on its own
MaxLlOps == 8
\* characters of a text of skippable_text_hf driven on its own
MaxHfText == 7
\* characters of a text whose positions are sorted by sort driven on its own
MaxSortText == 5
\* characters of a text on which sort takes the comparison-sort path
MaxCmpText == 4
\* rows and columns of the scratch table H of text_positions_hf (at least 256
\* in the code): scaled down so that new symbols outgrow it
table_size == 3
\* bits of one word of the bit vector of skippable_text_hf (uint64_t in the
\* code): scaled down so that short blank runs cover whole words
word_bits == 2

\* number of copies of a word in the texts compressed call by call
MaxRepeat == 5

\* length of the texts compressed call by call
MaxRoundLen == 16

\* number of new symbols written to the bitmap text
MaxNewSymbols == 2

\* compute_repair: "in the low-frequency pair processing phase, insert at
\* most n/B elements in the hash"
B == 50

\* byte values the input is drawn from
Bytes == {97, 98}

\* ~itype(0): reserved null value / BLANK character. itype is uint32_t in the
\* code; the model has no value above 2^31-1 = 2147483647, and no symbol or index of a
\* bounded run comes near it.
NULL == 2147483647
BLANK == NULL
nullpair == <<NULL, NULL>>


(***************************************************************************)
(* skippable_text: T[i] for i non-blank is the character; a run of blanks  *)
(* stores its length in its first and in its last position.                *)
(***************************************************************************)
new_text(n) == [T |-> [i \in 1..n |-> 0], blank |-> [i \in 1..n |-> FALSE], nb |-> n]

text_size(t) == Len(t.T)

is_blank(t, i) == t.blank[i+1]

\* operator[]
text_at(t, i) == IF t.blank[i+1] THEN BLANK ELSE t.T[i+1]

\* faulty variant of text_set: the character written is always the first of
\* the alphabet
text_set_first(t, i, c) == [t EXCEPT !.T[i+1] = 0]

text_set(t, i, c) == [t EXCEPT !.T[i+1] = c]

pair_starting_at(t, i) ==
    LET n == Len(t.T) IN
    IF i = n-1 \/ (t.blank[i+2] /\ i + t.T[i+2] + 1 >= n) THEN nullpair
    ELSE IF text_at(t, i) = BLANK THEN nullpair
    ELSE <<t.T[i+1], IF t.blank[i+2] THEN t.T[(i + t.T[i+2] + 1) + 1] ELSE t.T[i+2]>>

next_pair(t, i) ==
    LET n == Len(t.T) IN
    IF i = n-1 \/ (t.blank[i+2] /\ i + t.T[i+2] + 1 >= n) THEN nullpair
    ELSE IF text_at(t, i) = BLANK THEN nullpair
    ELSE pair_starting_at(t, IF t.blank[i+2] THEN i + t.T[i+2] + 1 ELSE i+1)

pair_ending_at(t, i) ==
    IF i = 0 \/ (t.blank[i] /\ i < t.T[i] + 1) THEN nullpair
    ELSE IF text_at(t, i) = BLANK THEN nullpair
    ELSE <<IF t.blank[i] THEN t.T[(i - (t.T[i] + 1)) + 1] ELSE t.T[i], t.T[i+1]>>

\* the assertions of replace(i, X): i is not blank, is not the last position,
\* and a run of blanks that follows i ends at a non-blank position of the text
replace_ok(t, i) ==
    /\ i < Len(t.T) - 1
    /\ ~t.blank[i+1]
    /\ t.blank[i+2] => /\ i + t.T[i+2] + 1 < Len(t.T)
                       /\ ~t.blank[(i + t.T[i+2] + 1) + 1]

\* faulty variant of replace: the run of blanks that follows the blanked
\* position is not merged into the new run
replace_no_merge(t, i, x) ==
    LET i_next == IF t.blank[i+2] THEN i + t.T[i+2] + 1 ELSE i+1
        new_len == (i_next - (i+1)) + 1
        T1 == [t.T EXCEPT ![i+2] = new_len]
        T2 == [T1 EXCEPT ![i+new_len+1] = new_len]
        T3 == [T2 EXCEPT ![i+1] = x]
    IN [T |-> T3, blank |-> [t.blank EXCEPT ![i_next+1] = TRUE], nb |-> t.nb - 1]

\* faulty variant of replace: the position blanked is i+1, also when i+1 is
\* blank already and the next non-blank position is further to the right
replace_blank_adjacent(t, i, x) ==
    LET n == Len(t.T)
        i_next == IF t.blank[i+2] THEN i + t.T[i+2] + 1 ELSE i+1
        len == i_next - (i+1)
        next_len == IF i_next = n-1 THEN 0
                    ELSE IF t.blank[i_next+2] THEN t.T[i_next+2] ELSE 0
        new_len == len + next_len + 1
        T1 == [t.T EXCEPT ![i+2] = new_len]
        T2 == [T1 EXCEPT ![i+new_len+1] = new_len]
        T3 == [T2 EXCEPT ![i+1] = x]
    IN [T |-> T3, blank |-> [t.blank EXCEPT ![i+2] = TRUE], nb |-> t.nb - 1]

\* replace(i, X): AB becomes X_ ; called on a non-blank i that starts a pair
replace(t, i, x) ==
    LET n == Len(t.T)
        i_next == IF t.blank[i+2] THEN i + t.T[i+2] + 1 ELSE i+1
        len == i_next - (i+1)
        next_len == IF i_next = n-1 THEN 0
                    ELSE IF t.blank[i_next+2] THEN t.T[i_next+2] ELSE 0
        new_len == len + next_len + 1
        T1 == [t.T EXCEPT ![i+2] = new_len]
        T2 == [T1 EXCEPT ![i+new_len+1] = new_len]
        T3 == [T2 EXCEPT ![i+1] = x]
    IN [T |-> T3, blank |-> [t.blank EXCEPT ![i_next+1] = TRUE], nb |-> t.nb - 1]

number_of_non_blank_characters(t) == t.nb

(***************************************************************************)
(* text_positions                                                          *)
(***************************************************************************)
\* scratch table H[a][b] = <begin, end>, all <0,0> at rest: kept sparse
HGet(H, ab) == IF ab \in DOMAIN H THEN H[ab] ELSE <<0, 0>>
HSet(H, ab, v) ==
    IF v = <<0, 0>> THEN [p \in DOMAIN H \ {ab} |-> H[p]]
    ELSE [p \in DOMAIN H \cup {ab} |-> IF p = ab THEN v ELSE H[p]]
EmptyH == [p \in {} |-> <<0, 0>>]

\* positions 0..n-2 of the text whose pair is ab, in text order
PositionsOf(t, ab) ==
    SelectSeq([k \in 1..(text_size(t)-1) |-> k-1], LAMBDA i : pair_starting_at(t, i) = ab)

\* constructor: keep the positions of the pairs with frequency >= min_freq,
\* one cluster per pair, pairs in the order of the table F (a, then b)
RECURSIVE FillHighPairs(_, _, _, _)
FillHighPairs(t, min_freq, sigma, k) ==
    IF k >= sigma * sigma THEN <<>>
    ELSE LET ps == PositionsOf(t, <<k \div sigma, k % sigma>>)
         IN (IF Len(ps) < min_freq THEN <<>> ELSE ps) \o FillHighPairs(t, min_freq, sigma, k+1)

new_text_positions(t, min_freq, sigma) ==
    [TP |-> FillHighPairs(t, min_freq, sigma, 0), H |-> EmptyH]

tp_size(tp) == Len(tp.TP)
tp_at(tp, i) == tp.TP[i+1]

\* first step of sort(i, j): count frequencies, mark one position per pair
RECURSIVE SortCount(_, _, _, _, _)
\* H[a][b].first++ at the entry k, marked when it is the first one of its pair
SortCountEntry(s, k, ab, first) ==
    [H |-> HSet(s.H, ab, <<HGet(s.H, ab)[1] + 1, HGet(s.H, ab)[2]>>),
     dpp |-> IF first THEN s.dpp \cup {k} ELSE s.dpp \ {k}]

SortCountPair(t, TPv, k, j, s, ab) ==
    IF is_blank(t, TPv[k+1]) \/ ab = nullpair
    THEN SortCount(t, TPv, k+1, j, s)
    ELSE IF HGet(s.H, ab)[1] = 0
         THEN SortCount(t, TPv, k+1, j, SortCountEntry(s, k, ab, TRUE))
         ELSE SortCount(t, TPv, k+1, j, SortCountEntry(s, k, ab, FALSE))

SortCount(t, TPv, k, j, s) ==
    IF k >= j THEN s
    ELSE SortCountPair(t, TPv, k, j, s, pair_starting_at(t, TPv[k+1]))

\* second step: cumulate frequencies
RECURSIVE SortCumulate(_, _, _, _, _)
SortCumulatePair(s, ab) ==
    [s EXCEPT !.H = HSet(s.H, ab, <<s.t, s.t>>),
              !.t = s.t + HGet(s.H, ab)[1]]

SortCumulate(t, TPv, k, j, s) ==
    IF k >= j THEN s
    ELSE IF k \in s.dpp
         THEN SortCumulate(t, TPv, k+1, j,
                           SortCumulatePair(s, pair_starting_at(t, TPv[k+1])))
         ELSE SortCumulate(t, TPv, k+1, j, s)

\* third step: cluster. s = [TP, H, t, dpp]; null_start is fixed
RECURSIVE SortCluster(_, _, _, _, _)
\* one more entry of the pair ab is placed: its end moves by n
SortClusterBump(s, ab, ab_start, ab_end, n) ==
    IF ab = nullpair THEN [s EXCEPT !.t = s.t + n]
    ELSE [s EXCEPT !.H = HSet(s.H, ab, <<ab_start, ab_end + n>>)]

\* faulty variant of SortClusterInPlace: the first entry of a cluster is
\* not marked
SortClusterInPlaceUnmarked(s, k, ab, ab_start, ab_end) ==
    [k |-> k + 1,
     s |-> SortClusterBump(s, ab, ab_start, ab_end, IF ab_end = k+1 THEN 1 ELSE 0)]

\* TP[k] is in the range of its pair: k moves on
SortClusterInPlace(s, k, ab, ab_start, ab_end) ==
    [k |-> k + 1,
     s |-> [SortClusterBump(s, ab, ab_start, ab_end, IF ab_end = k+1 THEN 1 ELSE 0)
            EXCEPT !.dpp = IF k = ab_start /\ ab # nullpair
                           THEN s.dpp \cup {k} ELSE s.dpp \ {k}]]

\* TP[k] is swapped with the entry at the end of the range of its pair
SortClusterSwap(s, k, ab, ab_start, ab_end) ==
    [k |-> k,
     s |-> [SortClusterBump(s, ab, ab_start, ab_end, 1)
            EXCEPT !.TP = [s.TP EXCEPT ![k+1] = s.TP[ab_end+1],
                                       ![ab_end+1] = s.TP[k+1]]]]

SortClusterPlace(s, k, ab, ab_start, ab_end) ==
    IF k >= ab_start /\ k <= ab_end
    THEN SortClusterInPlace(s, k, ab, ab_start, ab_end)
    ELSE SortClusterSwap(s, k, ab, ab_start, ab_end)

SortClusterPair(null_start, k, s, ab) ==
    SortClusterPlace(s, k, ab,
                     IF ab = nullpair THEN null_start ELSE HGet(s.H, ab)[1],
                     IF ab = nullpair THEN s.t ELSE HGet(s.H, ab)[2])

SortClusterNext(t, null_start, j, r) == SortCluster(t, null_start, r.k, j, r.s)

SortCluster(t, null_start, k, j, s) ==
    IF k >= j THEN s
    ELSE SortClusterNext(t, null_start, j,
             SortClusterPair(null_start, k, s, pair_starting_at(t, s.TP[k+1])))

\* last step: restore H
RECURSIVE SortRestore(_, _, _, _)
SortRestore(t, k, j, s) ==
    IF k >= j THEN s
    ELSE IF k \in s.dpp
         THEN SortRestore(t, k+1, j,
                [s EXCEPT !.H = HSet(s.H, pair_starting_at(t, s.TP[k+1]), <<0, 0>>)])
         ELSE SortRestore(t, k+1, j, s)

\* faulty variant of SortSecond: the frequencies are cumulated from the
\* start of TP and not from the start of the range
SortSecondFromStart(tp, t, i, j, s1) ==
    SortCumulate(t, tp.TP, i, j, [H |-> s1.H, dpp |-> s1.dpp, t |-> 0])

\* cluster TP[i,...,j-1] by character pairs (in-place counting sort)
SortSecond(tp, t, i, j, s1) ==
    SortCumulate(t, tp.TP, i, j, [H |-> s1.H, dpp |-> s1.dpp, t |-> i])

SortThird(tp, t, i, j, s2) ==
    SortRestore(t, i, j,
        SortCluster(t, s2.t, i, j, [TP |-> tp.TP, H |-> s2.H, t |-> s2.t, dpp |-> {}]))

SortResult(s4) == [TP |-> s4.TP, H |-> s4.H]

cluster(tp, t, i, j) ==
    SortResult(SortThird(tp, t, i, j,
        SortSecond(tp, t, i, j, SortCount(t, tp.TP, i, j, [H |-> tp.H, dpp |-> {}]))))

\* replace the content with the text positions 0,...,n-1 (not sorted)
fill_with_text_positions(tp, t) ==
    [tp EXCEPT !.TP = [k \in 1..text_size(t) |-> k-1]]

(***************************************************************************)
(* ll_el and ll_vec: a doubly-linked list of queue elements stored in a    *)
(* vector V; free slots are chained through next_el from first_empty.      *)
(* All internal invariants of the code are assertions; the field bad       *)
(* records that an assertion of the list has failed (the program aborts).  *)
(***************************************************************************)
ll_el(ab, P_ab, L_ab, F_ab) == [ab |-> ab, P_ab |-> P_ab, L_ab |-> L_ab, F_ab |-> F_ab]

\* ll_el(): the null element
null_el == [ab |-> <<0, 0>>, P_ab |-> 0, L_ab |-> 0, F_ab |-> NULL]

is_null(e) == e.F_ab = NULL

new_ll_vec ==
    [V |-> <<null_el>>, next_el |-> <<NULL>>, prev_el |-> <<NULL>>,
     first_el |-> NULL, first_empty |-> 0, n |-> 0, bad |-> FALSE]

ll_size(l) == l.n

ll_capacity(l) == Len(l.V)

\* operator[]
ll_at(l, i) == l.V[i+1]

\* pair of the first element of the list
ll_head(l) == l.V[l.first_el + 1].ab

\* the element pop() returns: the null element when the list is empty
ll_pop_el(l) ==
    IF l.n = 0 \/ l.first_el = NULL THEN null_el ELSE l.V[l.first_el + 1]

\* pop(): extract the head of the list; V[first_el] is read, not written
ll_pop(l) ==
    IF l.bad \/ l.n = 0 THEN l
    ELSE IF l.first_el = NULL THEN [l EXCEPT !.bad = TRUE]
    ELSE IF is_null(l.V[l.first_el + 1]) THEN [l EXCEPT !.bad = TRUE]
    ELSE [l EXCEPT !.first_el = l.next_el[l.first_el + 1],
                   !.next_el[l.first_el + 1] = l.first_empty,
                   !.first_empty = l.first_el,
                   !.n = l.n - 1]

ll_remove(l, i) ==
    IF l.bad \/ i >= Len(l.V) \/ l.n = 0 THEN [l EXCEPT !.bad = TRUE]
    ELSE IF is_null(l.V[i+1]) THEN [l EXCEPT !.bad = TRUE]
    ELSE LET prev == l.prev_el[i+1]
             next == l.next_el[i+1]
             l1 == [l EXCEPT !.V[i+1] = null_el,
                             !.next_el[i+1] = l.first_empty,
                             !.first_empty = i,
                             !.n = l.n - 1]
         IN IF prev = NULL
            THEN IF l.first_el # i THEN [l EXCEPT !.bad = TRUE]
                 ELSE [l1 EXCEPT !.first_el = next]
            ELSE LET l2 == [l1 EXCEPT !.next_el[prev+1] = next]
                 IN IF next # NULL THEN [l2 EXCEPT !.prev_el[next+1] = prev] ELSE l2

\* resize of a vector: new slots hold v
Resize(s, m, v) == [k \in 1..m |-> IF k <= Len(s) THEN s[k] ELSE v]

\* position at which insert stores the next element
ll_insert_pos(l) == IF l.first_empty = NULL THEN l.n ELSE l.first_empty

\* insert x at the head of the list
ll_insert(l, x) ==
    IF l.bad \/ (l.first_empty = NULL /\ l.n # Len(l.V)) THEN [l EXCEPT !.bad = TRUE]
    ELSE LET Grown(old_size, new_size) ==
                 [l EXCEPT !.V = Resize(l.V, new_size, null_el),
                           !.first_empty = old_size,
                           !.next_el = [k \in 1..new_size |->
                               IF k-1 < old_size THEN l.next_el[k]
                               ELSE IF k = new_size THEN NULL ELSE k],
                           !.prev_el = [k \in 1..new_size |->
                               IF k-1 < old_size THEN l.prev_el[k]
                               ELSE IF k-1 = old_size THEN NULL ELSE k-2]]
             Link(g, insert_pos, g1) ==
                 IF g.first_el # NULL
                 THEN [g1 EXCEPT !.prev_el[g.first_el+1] = insert_pos] ELSE g1
             Place(g, insert_pos) ==
                 IF insert_pos >= Len(g.V) THEN [l EXCEPT !.bad = TRUE]
                 ELSE IF ~is_null(g.V[insert_pos+1]) THEN [l EXCEPT !.bad = TRUE]
                 ELSE Link(g, insert_pos,
                           [g EXCEPT !.first_empty = g.next_el[insert_pos+1],
                                     !.V[insert_pos+1] = x,
                                     !.next_el[insert_pos+1] = g.first_el,
                                     !.prev_el[insert_pos+1] = NULL,
                                     !.first_el = insert_pos,
                                     !.n = g.n + 1])
             PlaceIn(g) == Place(g, g.first_empty)
         IN PlaceIn(IF l.first_empty # NULL THEN l
                    ELSE Grown(l.n, l.n + (IF l.n \div 2 = 0 THEN 1 ELSE l.n \div 2)))

\* compact(): the elements of the list from cur_pos on, in list order, copied
\* to tmp; ok is false when the walk visits more than n elements
RECURSIVE ll_walk(_, _, _)
ll_walk(l, cur_pos, i) ==
    IF cur_pos = NULL THEN [tmp |-> <<>>, ok |-> TRUE]
    ELSE IF i >= l.n \/ cur_pos >= Len(l.V) THEN [tmp |-> <<>>, ok |-> FALSE]
    ELSE LET r == ll_walk(l, l.next_el[cur_pos+1], i+1)
         IN [tmp |-> <<l.V[cur_pos+1]>> \o r.tmp, ok |-> r.ok]

\* remove the empty slots; the elements keep their list order
ll_compact(l) ==
    IF l.bad THEN l
    ELSE IF l.n = 0 THEN new_ll_vec
    ELSE LET Compacted(r) ==
                 IF ~r.ok \/ Len(r.tmp) # l.n
                 THEN [l EXCEPT !.bad = TRUE]
                 ELSE [V |-> r.tmp,
                       next_el |-> [k \in 1..l.n |-> IF k = l.n THEN NULL ELSE k],
                       prev_el |-> [k \in 1..l.n |-> IF k = 1 THEN NULL ELSE k-2],
                       first_el |-> 0, first_empty |-> NULL, n |-> l.n, bad |-> FALSE]
         IN Compacted(ll_walk(l, l.first_el, 0))

(***************************************************************************)
(* hash tables of the queues (pair_hash, std::unordered_map)               *)
(***************************************************************************)
MapPut(H, k, v) == [x \in DOMAIN H \cup {k} |-> IF x = k THEN v ELSE H[x]]
MapErase(H, k) == [x \in DOMAIN H \ {k} |-> H[x]]
EmptyMap == [x \in {} |-> 0]

triple(P_ab, L_ab, F_ab) == [P_ab |-> P_ab, L_ab |-> L_ab, F_ab |-> F_ab]

(***************************************************************************)
(* hf_queue: high-frequency queue. H maps a pair to <P_ab, L_ab, F_ab>;    *)
(* pairs_in_hash lists the pairs in the order of their insertion.          *)
(***************************************************************************)
hf_init(min_freq) ==
    [kind |-> "hf", min_freq |-> min_freq, H |-> EmptyMap, pairs_in_hash |-> <<>>,
     n |-> 0, bad |-> min_freq <= 1]

hf_minimum_frequency(Q) == Q.min_freq

hf_contains(Q, ab) == ab \in DOMAIN Q.H

\* operator[]
hf_at(Q, ab) == Q.H[ab]

\* faulty variant of the scan of max(): f >= max_F, the last pair of
\* pairs_in_hash with the largest F_ab wins
RECURSIVE hf_scan_max_last(_, _, _, _)
hf_scan_max_last(Q, k, max_F, max_pair) ==
    IF k > Len(Q.pairs_in_hash) THEN max_pair
    ELSE LET p == Q.pairs_in_hash[k]
         IN IF hf_contains(Q, p) /\ Q.H[p].F_ab >= max_F
            THEN hf_scan_max_last(Q, k+1, Q.H[p].F_ab, p)
            ELSE hf_scan_max_last(Q, k+1, max_F, max_pair)

\* linear scan: the first pair of pairs_in_hash with the largest F_ab
RECURSIVE hf_scan_max(_, _, _, _)
hf_scan_max(Q, k, max_F, max_pair) ==
    IF k > Len(Q.pairs_in_hash) THEN max_pair
    ELSE LET p == Q.pairs_in_hash[k]
         IN IF hf_contains(Q, p) /\ Q.H[p].F_ab > max_F
            THEN hf_scan_max(Q, k+1, Q.H[p].F_ab, p)
            ELSE hf_scan_max(Q, k+1, max_F, max_pair)

hf_max(Q) == IF Q.n = 0 THEN nullpair ELSE hf_scan_max(Q, 1, 0, nullpair)

hf_remove(Q, ab) ==
    IF Q.bad \/ ~hf_contains(Q, ab) THEN [Q EXCEPT !.bad = TRUE]
    ELSE [Q EXCEPT !.H = MapErase(Q.H, ab), !.n = Q.n - 1]

hf_size(Q) == Q.n

\* faulty variant of decrease(): the pair is removed when its frequency
\* falls below the minimum frequency
hf_decrease_remove(Q, ab) ==
    IF Q.bad \/ ~hf_contains(Q, ab) THEN [Q EXCEPT !.bad = TRUE]
    ELSE IF Q.H[ab].F_ab <= 0 THEN [Q EXCEPT !.bad = TRUE]
    ELSE IF Q.H[ab].F_ab - 1 < Q.min_freq
         THEN [Q EXCEPT !.H = MapErase(Q.H, ab), !.n = Q.n - 1]
         ELSE [Q EXCEPT !.H[ab].F_ab = Q.H[ab].F_ab - 1]

hf_decrease(Q, ab) ==
    IF Q.bad \/ ~hf_contains(Q, ab) THEN [Q EXCEPT !.bad = TRUE]
    ELSE IF Q.H[ab].F_ab <= 0 THEN [Q EXCEPT !.bad = TRUE]
    ELSE [Q EXCEPT !.H[ab].F_ab = Q.H[ab].F_ab - 1]

hf_insert(Q, el) ==
    IF Q.bad \/ hf_contains(Q, el.ab) \/ el.F_ab < Q.min_freq THEN [Q EXCEPT !.bad = TRUE]
    ELSE [Q EXCEPT !.H = MapPut(Q.H, el.ab, triple(el.P_ab, el.L_ab, el.F_ab)),
                   !.pairs_in_hash = Append(Q.pairs_in_hash, el.ab),
                   !.n = Q.n + 1]

hf_update(Q, el) ==
    IF Q.bad \/ ~hf_contains(Q, el.ab) \/ el.F_ab < Q.min_freq THEN [Q EXCEPT !.bad = TRUE]
    ELSE [Q EXCEPT !.H[el.ab] = triple(el.P_ab, el.L_ab, el.F_ab)]

(***************************************************************************)
(* lf_queue: low-frequency queue. F[f] is the linked list of the pairs     *)
(* with frequency f, H maps a pair to <frequency, offset in F[frequency]>. *)
(* The field bad records that an assertion of the queue or of one of its   *)
(* lists has failed.                                                       *)
(***************************************************************************)
new_lf_queue(max_freq) ==
    [kind |-> "lf", max_freq |-> max_freq, F |-> [f \in 1..(max_freq+1) |-> new_ll_vec],
     H |-> EmptyMap, n |-> 0, MAX |-> max_freq, bad |-> max_freq <= 0]

\* F[f]
lf_list(Q, f) == Q.F[f+1]

lf_contains(Q, ab) == ab \in DOMAIN Q.H

\* the assertions on the coordinates of a contained pair
lf_coord_ok(Q, ab) ==
    /\ lf_contains(Q, ab)
    /\ Q.H[ab][1] < Len(Q.F)
    /\ Q.H[ab][2] < ll_capacity(lf_list(Q, Q.H[ab][1]))
    /\ ~is_null(ll_at(lf_list(Q, Q.H[ab][1]), Q.H[ab][2]))

\* operator[]
lf_at(Q, ab) ==
    LET e == ll_at(lf_list(Q, Q.H[ab][1]), Q.H[ab][2])
    IN triple(e.P_ab, e.L_ab, e.F_ab)

\* the assertions of operator[]
lf_at_ok(Q, ab) ==
    /\ ~Q.bad
    /\ lf_coord_ok(Q, ab)
    /\ lf_at(Q, ab).F_ab = Q.H[ab][1]

\* faulty variant of the cursor of max(): the lowest list is served first,
\* the highest one after it
lf_cursor_low(Q, m) ==
    IF Q.max_freq >= 2 /\ ll_size(lf_list(Q, 2)) > 0 THEN 2 ELSE Q.max_freq

\* max(): the cursor MAX walks down over the empty lists
RECURSIVE lf_cursor(_, _)
lf_cursor(Q, m) ==
    IF m > 1 /\ ll_size(lf_list(Q, m)) = 0 THEN lf_cursor(Q, m-1) ELSE m

\* the assertions of max() on a non-empty queue
lf_max_ok(Q) ==
    LET m == lf_cursor(Q, Q.MAX)
    IN /\ ~Q.bad
       /\ Q.MAX < Len(Q.F) /\ Q.MAX > 1 /\ m > 1
       /\ lf_list(Q, m).first_el # NULL
       /\ LET ab == ll_head(lf_list(Q, m))
          IN /\ lf_coord_ok(Q, ab)
             /\ ll_at(lf_list(Q, Q.H[ab][1]), Q.H[ab][2]).ab = ab
             /\ Q.H[ab][1] = m
             /\ lf_at(Q, ab).F_ab = m

\* the pair returned by max()
lf_max(Q) ==
    IF Q.n = 0 \/ ~lf_max_ok(Q) THEN nullpair
    ELSE ll_head(lf_list(Q, lf_cursor(Q, Q.MAX)))

\* the queue after a call of max()
lf_after_max(Q) ==
    IF Q.n = 0 THEN Q
    ELSE IF ~lf_max_ok(Q) THEN [Q EXCEPT !.bad = TRUE]
    ELSE [Q EXCEPT !.MAX = lf_cursor(Q, Q.MAX)]

\* compact_ll(f): compact F[f] and re-compute the coordinates of its pairs
RECURSIVE lf_rehash(_, _, _, _)
lf_rehash(Q, f, i, H) ==
    IF i >= ll_size(lf_list(Q, f)) THEN [H |-> H, ok |-> TRUE]
    ELSE LET e == ll_at(lf_list(Q, f), i)
         IN IF is_null(e) \/ e.ab \notin DOMAIN H THEN [H |-> H, ok |-> FALSE]
            ELSE lf_rehash(Q, f, i+1, MapPut(H, e.ab, <<f, i>>))

compact_ll_rehashed(Q1, r) == [Q1 EXCEPT !.H = r.H, !.bad = ~r.ok]

compact_ll_rehash(Q1, f) ==
    IF Q1.F[f+1].bad THEN [Q1 EXCEPT !.bad = TRUE]
    ELSE compact_ll_rehashed(Q1, lf_rehash(Q1, f, 0, Q1.H))

compact_ll(Q, f) ==
    compact_ll_rehash([Q EXCEPT !.F[f+1] = ll_compact(lf_list(Q, f))], f)

lf_remove_count(Q2) ==
    IF Q2.bad \/ Q2.n <= 0 THEN [Q2 EXCEPT !.bad = TRUE]
    ELSE [Q2 EXCEPT !.n = Q2.n - 1]

lf_remove_compact(Q1, freq) ==
    lf_remove_count(
        IF Q1.F[freq+1].bad THEN [Q1 EXCEPT !.bad = TRUE]
        ELSE IF ll_size(lf_list(Q1, freq)) < ll_capacity(lf_list(Q1, freq)) \div 2
        THEN compact_ll(Q1, freq)
        ELSE Q1)

lf_remove_at(Q, ab, freq, offset) ==
    IF freq > Q.max_freq \/ ll_at(lf_list(Q, freq), offset).ab # ab
    THEN [Q EXCEPT !.bad = TRUE]
    ELSE lf_remove_compact([Q EXCEPT !.F[freq+1] = ll_remove(lf_list(Q, freq), offset),
                                     !.H = MapErase(Q.H, ab)],
                           freq)

lf_remove(Q, ab) ==
    IF Q.bad \/ ~lf_coord_ok(Q, ab) THEN [Q EXCEPT !.bad = TRUE]
    ELSE lf_remove_at(Q, ab, Q.H[ab][1], Q.H[ab][2])

lf_size(Q) == Q.n

lf_insert_link(Q, el, off, l) ==
    IF l.bad THEN [Q EXCEPT !.bad = TRUE]
    ELSE [Q EXCEPT !.F[el.F_ab+1] = l, !.H = MapPut(Q.H, el.ab, <<el.F_ab, off>>),
                   !.n = Q.n + 1]

lf_insert(Q, el) ==
    IF Q.bad \/ el.F_ab < 2 \/ el.F_ab >= Len(Q.F) \/ lf_contains(Q, el.ab)
    THEN [Q EXCEPT !.bad = TRUE]
    ELSE lf_insert_link(Q, el, ll_insert_pos(lf_list(Q, el.F_ab)),
                        ll_insert(lf_list(Q, el.F_ab), el))

lf_decrease_reinsert(Q1, e1) ==
    IF Q1.bad \/ e1.F_ab < 2 THEN Q1
    ELSE lf_insert_link(Q1, e1, ll_insert_pos(lf_list(Q1, e1.F_ab)),
                        ll_insert(lf_list(Q1, e1.F_ab), e1))

lf_decrease_move(Q, ab, freq, e) ==
    IF freq <= 1 \/ e.ab # ab \/ freq > Q.max_freq THEN [Q EXCEPT !.bad = TRUE]
    ELSE lf_decrease_reinsert(lf_remove(Q, ab), [e EXCEPT !.F_ab = e.F_ab - 1])

lf_decrease(Q, ab) ==
    IF ~lf_at_ok(Q, ab) THEN [Q EXCEPT !.bad = TRUE]
    ELSE lf_decrease_move(Q, ab, Q.H[ab][1], ll_at(lf_list(Q, Q.H[ab][1]), Q.H[ab][2]))

lf_minimum_frequency(Q) == 2

\* update P_ab and L_ab of a pair; its frequency cannot change
lf_update(Q, el) ==
    IF Q.bad \/ ~lf_coord_ok(Q, el.ab) THEN [Q EXCEPT !.bad = TRUE]
    ELSE LET freq == Q.H[el.ab][1]
             offset == Q.H[el.ab][2]
         IN IF freq # el.F_ab \/ freq <= 1
               \/ ll_at(lf_list(Q, freq), offset).L_ab < el.L_ab
            THEN [Q EXCEPT !.bad = TRUE]
            ELSE lf_after_max([Q EXCEPT !.F[freq+1].V[offset+1].P_ab = el.P_ab,
                                        !.F[freq+1].V[offset+1].L_ab = el.L_ab])

(***************************************************************************)
(* hf_queue with the arena: B is the linked list of the records, H maps a  *)
(* pair to the index of its record in B, MIN and MAX cache the pairs of    *)
(* lowest and highest frequency.                                           *)
(***************************************************************************)
\* linear scan of the list from its head: the pair of lowest (lower) or of
\* highest frequency; ok is false when the scan meets an empty slot or does
\* not end
RECURSIVE ll_scan(_, _, _, _, _)
ll_scan(l, curr, curr_m, steps, lower) ==
    IF l.next_el[curr+1] = NULL THEN [ab |-> l.V[curr_m+1].ab, ok |-> TRUE]
    ELSE IF steps > Len(l.V) \/ is_null(l.V[curr+1]) \/ l.next_el[curr+1] >= Len(l.V)
    THEN [ab |-> nullpair, ok |-> FALSE]
    ELSE LET next == l.next_el[curr+1]
         IN ll_scan(l, next,
                    IF lower THEN (IF l.V[next+1].F_ab < l.V[curr_m+1].F_ab THEN next ELSE curr_m)
                    ELSE (IF l.V[next+1].F_ab > l.V[curr_m+1].F_ab THEN next ELSE curr_m),
                    steps + 1, lower)

\* min_pair(): the null pair on an empty list
ll_min_pair(l) ==
    IF l.n = 0 THEN [ab |-> nullpair, ok |-> TRUE]
    ELSE IF l.first_el = NULL THEN [ab |-> nullpair, ok |-> FALSE]
    ELSE ll_scan(l, l.first_el, l.first_el, 0, TRUE)

\* max_pair(): the null pair on an empty list
ll_max_pair(l) ==
    IF l.n = 0 THEN [ab |-> nullpair, ok |-> TRUE]
    ELSE IF l.first_el = NULL THEN [ab |-> nullpair, ok |-> FALSE]
    ELSE ll_scan(l, l.first_el, l.first_el, 0, FALSE)

new_hf_queue(max_size, min_freq) ==
    [kind |-> "hf", max_size |-> max_size, min_freq |-> min_freq, B |-> new_ll_vec,
     H |-> EmptyMap, MIN |-> nullpair, MAX |-> nullpair, bad |-> min_freq <= 1]

hfq_contains(Q, ab) == ab \in DOMAIN Q.H

hfq_size(Q) == ll_size(Q.B)

\* the assertions of operator[]
hfq_at_ok(Q, ab) ==
    /\ ~Q.bad /\ Q.max_size > 0
    /\ hfq_contains(Q, ab)
    /\ Q.H[ab] < ll_capacity(Q.B)

\* operator[]
hfq_at(Q, ab) ==
    LET e == ll_at(Q.B, Q.H[ab])
    IN triple(e.P_ab, e.L_ab, e.F_ab)

refresh_min_and_max_set(Q, mn, mx) ==
    [Q EXCEPT !.MIN = mn.ab, !.MAX = mx.ab, !.bad = ~mn.ok \/ ~mx.ok]

\* re-compute MIN and MAX when they are null or no longer in the queue
refresh_min_and_max(Q) ==
    IF Q.bad \/ Q.max_size <= 0 THEN [Q EXCEPT !.bad = TRUE]
    ELSE refresh_min_and_max_set(Q,
             IF Q.MIN = nullpair \/ ~hfq_contains(Q, Q.MIN)
             THEN ll_min_pair(Q.B) ELSE [ab |-> Q.MIN, ok |-> TRUE],
             IF Q.MAX = nullpair \/ ~hfq_contains(Q, Q.MAX)
             THEN ll_max_pair(Q.B) ELSE [ab |-> Q.MAX, ok |-> TRUE])

\* the loop of compact_ll: H[B[i].ab] = i for i < B.size()
RECURSIVE hfq_rehash(_, _, _)
hfq_rehash(l, i, H) ==
    IF i >= ll_size(l) THEN H
    ELSE hfq_rehash(l, i+1, MapPut(H, ll_at(l, i).ab, i))

\* compact_ll(): compact B and re-compute the indexes of the pairs
hfq_compact_ll(Q) ==
    IF Q.bad \/ Q.max_size <= 0 THEN [Q EXCEPT !.bad = TRUE]
    ELSE LET B1 == ll_compact(Q.B)
         IN IF B1.bad THEN [Q EXCEPT !.bad = TRUE]
            ELSE [Q EXCEPT !.B = B1, !.H = hfq_rehash(B1, 0, Q.H)]

hfq_remove_compact(Q1) ==
    IF Q1.B.bad THEN [Q1 EXCEPT !.bad = TRUE]
    ELSE refresh_min_and_max(
             IF ll_size(Q1.B) < ll_capacity(Q1.B) \div 2 THEN hfq_compact_ll(Q1) ELSE Q1)

hfq_remove_at(Q0, ab) ==
    IF Q0.bad \/ ~hfq_contains(Q0, ab) \/ Q0.H[ab] = NULL THEN [Q0 EXCEPT !.bad = TRUE]
    ELSE hfq_remove_compact([Q0 EXCEPT !.B = ll_remove(Q0.B, Q0.H[ab]),
                                       !.H = MapErase(Q0.H, ab)])

hfq_remove(Q, ab) == hfq_remove_at(refresh_min_and_max(Q), ab)

hfq_decrease_min(Q1, ab) ==
    IF Q1.bad \/ ~hfq_at_ok(Q1, ab) \/ ~hfq_at_ok(Q1, Q1.MIN) THEN [Q1 EXCEPT !.bad = TRUE]
    ELSE IF hfq_at(Q1, ab).F_ab < hfq_at(Q1, Q1.MIN).F_ab THEN [Q1 EXCEPT !.MIN = ab]
    ELSE Q1

hfq_decrease_to(Q1, ab) ==
    IF ll_at(Q1.B, Q1.H[ab]).F_ab < Q1.min_freq THEN hfq_remove(Q1, ab)
    ELSE hfq_decrease_min(refresh_min_and_max(Q1), ab)

\* decrease by 1 the frequency of ab; ab leaves the queue below min_freq
hfq_decrease(Q, ab) ==
    IF ~hfq_at_ok(Q, ab) \/ Q.H[ab] = NULL THEN [Q EXCEPT !.bad = TRUE]
    ELSE IF ll_at(Q.B, Q.H[ab]).F_ab <= 0 THEN [Q EXCEPT !.bad = TRUE]
    ELSE hfq_decrease_to([Q EXCEPT !.B.V[Q.H[ab]+1].F_ab = @ - 1], ab)

hfq_insert_max(Q2, el, idx) ==
    IF ~hfq_at_ok(Q2, Q2.MAX) THEN [Q2 EXCEPT !.bad = TRUE]
    ELSE LET Q3 == IF el.F_ab > hfq_at(Q2, Q2.MAX).F_ab THEN [Q2 EXCEPT !.MAX = el.ab] ELSE Q2
         IN IF \/ Q3.H[el.ab] # idx
               \/ ~hfq_at_ok(Q3, el.ab)
               \/ hfq_at(Q3, el.ab) # triple(el.P_ab, el.L_ab, el.F_ab)
               \/ hfq_size(Q3) > Q3.max_size
            THEN [Q3 EXCEPT !.bad = TRUE]
            ELSE Q3

hfq_insert_min(Q1, el, idx) ==
    IF Q1.bad \/ ~hfq_at_ok(Q1, Q1.MIN) THEN [Q1 EXCEPT !.bad = TRUE]
    ELSE hfq_insert_max(IF el.F_ab < hfq_at(Q1, Q1.MIN).F_ab THEN [Q1 EXCEPT !.MIN = el.ab]
                        ELSE Q1,
                        el, idx)

hfq_insert_link(Q, el, idx, B1) ==
    IF B1.bad THEN [Q EXCEPT !.bad = TRUE]
    ELSE hfq_insert_min(refresh_min_and_max([Q EXCEPT !.B = B1, !.H = MapPut(Q.H, el.ab, idx)]),
                        el, idx)

hfq_insert(Q, el) ==
    IF Q.bad \/ Q.max_size <= 0 \/ hfq_contains(Q, el.ab) \/ el.F_ab < Q.min_freq
    THEN [Q EXCEPT !.bad = TRUE]
    ELSE hfq_insert_link(Q, el, ll_insert_pos(Q.B), ll_insert(Q.B, el))

(***************************************************************************)
(* The engine is a template over the queue type: queue_t is hf_queue in    *)
(* the high-frequency phase and lf_queue in the low-frequency phase.       *)
(***************************************************************************)
QContains(Q, ab) == IF Q.kind = "hf" THEN hf_contains(Q, ab) ELSE lf_contains(Q, ab)
QAt(Q, ab) == IF Q.kind = "hf" THEN hf_at(Q, ab) ELSE lf_at(Q, ab)
QAtOk(Q, ab) == IF Q.kind = "hf" THEN ~Q.bad /\ hf_contains(Q, ab) ELSE lf_at_ok(Q, ab)
QMinimumFrequency(Q) == IF Q.kind = "hf" THEN hf_minimum_frequency(Q) ELSE lf_minimum_frequency(Q)
QMax(Q) == IF Q.kind = "hf" THEN hf_max(Q) ELSE lf_max(Q)
QAfterMax(Q) ==
    IF Q.kind = "hf" THEN (IF Q.n # 0 /\ hf_max(Q) = nullpair THEN [Q EXCEPT !.bad = TRUE] ELSE Q)
    ELSE lf_after_max(Q)
QInsert(Q, el) == IF Q.kind = "hf" THEN hf_insert(Q, el) ELSE lf_insert(Q, el)
QUpdate(Q, el) == IF Q.kind = "hf" THEN hf_update(Q, el) ELSE lf_update(Q, el)
QRemove(Q, ab) == IF Q.kind = "hf" THEN hf_remove(Q, ab) ELSE lf_remove(Q, ab)
QDecrease(Q, ab) == IF Q.kind = "hf" THEN hf_decrease(Q, ab) ELSE lf_decrease(Q, ab)

(***************************************************************************)
(* rp.cpp. The functions of the engine work on the text T, the text        *)
(* positions TP and a queue Q; here they map a record s = [T, TP, Q] to    *)
(* the record after the call. A failed assertion is recorded in Q.bad.     *)
(***************************************************************************)
Fail(s) == [s EXCEPT !.Q.bad = TRUE]

\* length of the run of equal pairs that starts at TP[j], inside TP[j..end-1]
RECURSIVE RunLength(_, _, _, _, _)
RunLength(t, tp, j, end, XY) ==
    IF j < end - 1 /\ XY # nullpair /\ XY = pair_starting_at(t, tp_at(tp, j+1))
    THEN 1 + RunLength(t, tp, j+1, end, XY)
    ELSE 1

\* step 2 of new_high_frequency_queue: insert the pairs with k >= min_freq
RECURSIVE FillQueue(_, _, _, _, _)
FillQueueRun(Q, tp, t, min_freq, j, XY, k) ==
    FillQueue(IF k >= min_freq THEN QInsert(Q, ll_el(XY, j, k, k)) ELSE Q,
              tp, t, min_freq, j + k)

FillQueuePair(Q, tp, t, min_freq, j, XY) ==
    FillQueueRun(Q, tp, t, min_freq, j, XY, RunLength(t, tp, j, tp_size(tp), XY))

FillQueue(Q, tp, t, min_freq, j) ==
    IF j >= tp_size(tp) THEN Q
    ELSE FillQueuePair(Q, tp, t, min_freq, j, pair_starting_at(t, tp_at(tp, j)))

new_high_frequency_queue(tp, t, min_freq) ==
    FillQueue(hf_init(min_freq), tp, t, min_freq, 0)

\* the scan of synchronize: s = [T, TP, Q], r = [Q, freq_AB]
RECURSIVE SyncScan(_, _, _, _, _, _)
\* faulty variant of SyncScanRun: a run is taken as a queue entry only when
\* it is longer than the minimum frequency
SyncScanRunAbove(t, tp, AB, j, end, r, XY, k) ==
    SyncScan(t, tp, AB, j + k, end,
        [Q |-> IF k > QMinimumFrequency(r.Q)
               THEN IF XY # AB
                    THEN (IF XY = nullpair THEN [r.Q EXCEPT !.bad = TRUE]
                          ELSE QInsert(r.Q, ll_el(XY, j, k, k)))
                    ELSE QUpdate(r.Q, ll_el(AB, j, k, k))
               ELSE r.Q,
         freq_AB |-> IF XY = AB THEN k ELSE r.freq_AB])

SyncScanRun(t, tp, AB, j, end, r, XY, k) ==
    SyncScan(t, tp, AB, j + k, end,
        [Q |-> IF k >= QMinimumFrequency(r.Q)
               THEN IF XY # AB
                    THEN (IF XY = nullpair THEN [r.Q EXCEPT !.bad = TRUE]
                          ELSE QInsert(r.Q, ll_el(XY, j, k, k)))
                    ELSE QUpdate(r.Q, ll_el(AB, j, k, k))
               ELSE r.Q,
         freq_AB |-> IF XY = AB THEN k ELSE r.freq_AB])

SyncScanPair(t, tp, AB, j, end, r, XY) ==
    SyncScanRun(t, tp, AB, j, end, r, XY, RunLength(t, tp, j, end, XY))

SyncScan(t, tp, AB, j, end, r) ==
    IF j >= end THEN r
    ELSE SyncScanPair(t, tp, AB, j, end, r, pair_starting_at(t, tp_at(tp, j)))

\* synchronize queue in range corresponding to pair AB
synchronize_check(s, AB, tp1, Q1) ==
    [T |-> s.T, TP |-> tp1,
     Q |-> IF QContains(Q1, AB)
              /\ (~QAtOk(Q1, AB) \/ QAt(Q1, AB).F_ab # QAt(Q1, AB).L_ab)
           THEN [Q1 EXCEPT !.bad = TRUE] ELSE Q1]

synchronize_scanned(s, AB, tp1, r) ==
    synchronize_check(s, AB, tp1,
        IF ~QContains(r.Q, AB) THEN [r.Q EXCEPT !.bad = TRUE]
        ELSE IF r.freq_AB < QMinimumFrequency(r.Q) THEN QRemove(r.Q, AB)
        ELSE r.Q)

synchronize_scan(s, AB, tp1, P_AB, L_AB) ==
    synchronize_scanned(s, AB, tp1,
        SyncScan(s.T, tp1, AB, P_AB, P_AB + L_AB, [Q |-> s.Q, freq_AB |-> 0]))

synchronize_range(s, AB, P_AB, L_AB) ==
    IF P_AB + L_AB > tp_size(s.TP) \/ L_AB = 0 THEN Fail(s)
    ELSE synchronize_scan(s, AB, cluster(s.TP, s.T, P_AB, P_AB + L_AB), P_AB, L_AB)

synchronize_el(s, AB, q_el) == synchronize_range(s, AB, q_el.P_ab, q_el.L_ab)

synchronize(s, AB) ==
    IF ~QAtOk(s.Q, AB) THEN Fail(s)
    ELSE synchronize_el(s, AB, QAt(s.Q, AB))

\* faulty variant of synchro_or_remove_el: a pair with F_ab = L_ab/2 is not
\* synchronized
synchro_or_remove_el_below(s, ab, q_el) ==
    IF q_el.F_ab < q_el.L_ab \div 2 THEN synchronize(s, ab)
    ELSE IF q_el.F_ab < QMinimumFrequency(s.Q)
         THEN [s EXCEPT !.Q = QRemove(s.Q, ab)]
         ELSE s

synchro_or_remove_el(s, ab, q_el) ==
    IF q_el.F_ab <= q_el.L_ab \div 2 THEN synchronize(s, ab)
    ELSE IF q_el.F_ab < QMinimumFrequency(s.Q)
         THEN [s EXCEPT !.Q = QRemove(s.Q, ab)]
         ELSE s

synchro_or_remove_pair(s, ab) ==
    IF ~QAtOk(s.Q, ab) THEN Fail(s)
    ELSE synchro_or_remove_el(s, ab, QAt(s.Q, ab))

\* first loop of substitution_round: replace the occurrences of AB by X_
RECURSIVE ReplaceLoop(_, _, _, _, _)
ReplaceLoopNext(s, AB, x, j, end, t1, Q2, ok) ==
    ReplaceLoop([T |-> t1, TP |-> s.TP,
                 Q |-> IF ok THEN Q2 ELSE [Q2 EXCEPT !.bad = TRUE]],
                AB, x, j+1, end)

\* faulty variant of ReplaceLoopDecrease: the frequency of the neighbour
\* pair is left as it is
ReplaceLoopDecreaseSkipped(Q, ab, AB) == Q

ReplaceLoopDecrease(Q, ab, AB) ==
    IF QContains(Q, ab) /\ ab # AB THEN QDecrease(Q, ab) ELSE Q

ReplaceLoopReplace(s, AB, x, j, end, i, xA, By, t1) ==
    ReplaceLoopNext(s, AB, x, j, end, t1,
        ReplaceLoopDecrease(ReplaceLoopDecrease(s.Q, xA, AB), By, AB),
        /\ (xA = nullpair \/ xA[2] = AB[1])
        /\ (By = nullpair \/ By[1] = AB[2])
        /\ (By = nullpair \/ pair_starting_at(t1, i) = <<x, By[2]>>))

ReplaceLoopAt(s, AB, x, j, end, i) ==
    IF pair_starting_at(s.T, i) = AB
    THEN ReplaceLoopReplace(s, AB, x, j, end, i,
                            pair_ending_at(s.T, i), next_pair(s.T, i), replace(s.T, i, x))
    ELSE ReplaceLoop(s, AB, x, j+1, end)

ReplaceLoop(s, AB, x, j, end) ==
    IF j >= end THEN s
    ELSE ReplaceLoopAt(s, AB, x, j, end, tp_at(s.TP, j))

\* second loop: re-scan text positions associated to AB and synchronize if needed
RECURSIVE ResyncLoop(_, _, _, _, _)
ResyncLoopSync(s, ab, AB) ==
    IF QContains(s.Q, ab) /\ ab # AB THEN synchro_or_remove_pair(s, ab) ELSE s

ResyncLoopContext(s, AB, x, j, end, xX, Xy) ==
    ResyncLoop(
        ResyncLoopSync(
            ResyncLoopSync(s,
                IF Xy = nullpair THEN Xy
                ELSE <<AB[2], (IF Xy[2] = x THEN AB[1] ELSE Xy[2])>>,
                AB),
            IF xX = nullpair THEN xX
            ELSE <<(IF xX[1] = x THEN AB[2] ELSE xX[1]), AB[1]>>,
            AB),
        AB, x, j+1, end)

ResyncLoopAt(s, AB, x, j, end, i) ==
    IF pair_starting_at(s.T, i) = AB THEN Fail(s)
    ELSE IF text_at(s.T, i) = x
    THEN ResyncLoopContext(s, AB, x, j, end, pair_ending_at(s.T, i), pair_starting_at(s.T, i))
    ELSE ResyncLoop(s, AB, x, j+1, end)

ResyncLoop(s, AB, x, j, end) ==
    IF j >= end THEN s
    ELSE ResyncLoopAt(s, AB, x, j, end, tp_at(s.TP, j))

\* one substitution round on s = [T, TP, Q] with next free symbol x:
\* replace the pair Q.max() by x
substitution_round_end(s3, AB) ==
    IF QContains(s3.Q, AB) THEN Fail(s3) ELSE s3

substitution_round_sync(s2, AB) ==
    substitution_round_end(
        IF QContains(s2.Q, AB) THEN synchronize(s2, AB) ELSE Fail(s2), AB)

substitution_round_loops(s0, AB, x, P_AB, L_AB) ==
    substitution_round_sync(
        ResyncLoop(ReplaceLoop(s0, AB, x, P_AB, P_AB + L_AB), AB, x, P_AB, P_AB + L_AB),
        AB)

substitution_round_el(s0, AB, x, q_el) ==
    IF q_el.F_ab < QMinimumFrequency(s0.Q) THEN Fail(s0)
    ELSE substitution_round_loops(s0, AB, x, q_el.P_ab, q_el.L_ab)

substitution_round_max(s0, AB, x) ==
    IF AB = nullpair \/ ~QAtOk(s0.Q, AB) THEN Fail(s0)
    ELSE substitution_round_el(s0, AB, x, QAt(s0.Q, AB))

\* faulty variant of substitution_round: the pair is replaced by the symbol
\* after the next free one
substitution_round_skip_symbol(s, x) ==
    substitution_round_max([s EXCEPT !.Q = QAfterMax(s.Q)], QMax(s.Q), x + 1)

substitution_round(s, x) ==
    substitution_round_max([s EXCEPT !.Q = QAfterMax(s.Q)], QMax(s.Q), x)

\* min_high_frequency = n^alpha with alpha = 0.66, at least 2: the values of
\* (itype)std::pow(n, 0.66) for n = 0, 1, 2, ...
PowTable == <<0, 1, 1, 2, 2, 2, 3, 3, 3, 4, 4, 4, 5, 5, 5, 5, 6, 6, 6, 6, 7,
              7, 7, 7, 8, 8, 8, 8, 9, 9, 9, 9, 9, 10, 10, 10, 10, 10,
              11, 11, 11, 11, 11, 11, 12, 12, 12, 12, 12,
              13, 13, 13, 13, 13, 13, 14>>
min_high_frequency(n) == IF PowTable[n+1] < 2 THEN 2 ELSE PowTable[n+1]

(***************************************************************************)
(* compute_repair and decompress, as steps of main                         *)
(***************************************************************************)
\* the input files: byte strings
RECURSIVE Strings(_)
Strings(n) ==
    IF n = 0 THEN {<<>>}
    ELSE LET shorter == Strings(n-1)
         IN shorter \cup {Append(u, c) : u \in {v \in shorter : Len(v) = n-1}, c \in Bytes}

Inputs == Strings(MaxLen)

\* index of byte c in the alphabet a, or NULL (char_to_int)
RECURSIVE char_to_int(_, _, _)
char_to_int(a, c, k) ==
    IF k > Len(a) THEN NULL
    ELSE IF a[k] = c THEN k-1 ELSE char_to_int(a, c, k+1)

\* read the file: r = [A, T], j = number of characters read
RECURSIVE FillText(_, _, _)
FillText(file, j, r) ==
    IF j >= Len(file) THEN r
    ELSE LET c == file[j+1]
             a1 == IF char_to_int(r.A, c, 1) = NULL THEN Append(r.A, c) ELSE r.A
         IN FillText(file, j+1, [A |-> a1, T |-> text_set(r.T, j, char_to_int(a1, c, 1))])

\* value of a variable that is not constructed yet
None == <<>>

\* compute_repair (1): read the input, build the text, the text positions of
\* the high-frequency pairs and the high-frequency queue
ReadInput ==
    /\ pc = "start"
    /\ LET Build(n, r, tau, tp) ==
               /\ A' = r.A
               /\ T' = r.T
               /\ X' = Len(r.A)
               /\ IF n <= 1
                  THEN /\ pc' = "abort"
                       /\ UNCHANGED <<TP, HFQ>>
                  ELSE /\ TP' = tp
                       /\ HFQ' = new_high_frequency_queue(tp, r.T, tau)
                       /\ pc' = "hf"
           Read(n, r, tau) == Build(n, r, tau, new_text_positions(r.T, tau, Len(r.A)))
       IN Read(Len(w), FillText(w, 0, [A |-> <<>>, T |-> new_text(Len(w))]),
               min_high_frequency(Len(w)))
    /\ UNCHANGED <<w, LFQ, G, T_vec, last_freq, rounds, S, i_dec, out, S2, out2,
                   q, q_prev, q_op, ops, cmd, n_file>>

\* compute_repair (2): one substitution round of the high-frequency phase
HFRound ==
    /\ pc = "hf"
    /\ LET Round(AB, Q0, s) ==
               /\ Q0.bad \/ AB # nullpair
               /\ T' = s.T
               /\ TP' = s.TP
               /\ HFQ' = s.Q
               /\ IF AB = nullpair
                  THEN UNCHANGED <<G, last_freq, X, rounds>> /\ pc' = "abort"
                  ELSE /\ G' = Append(G, AB)
                       /\ last_freq' = IF QAtOk(Q0, AB) THEN QAt(Q0, AB).F_ab ELSE last_freq
                       /\ rounds' = rounds + 1
                       /\ IF s.Q.bad
                          THEN X' = X /\ pc' = "abort"
                          ELSE X' = X + 1 /\ pc' = "hf"
       IN Round(QMax(HFQ), QAfterMax(HFQ),
                substitution_round([T |-> T, TP |-> TP, Q |-> HFQ], X))
    /\ UNCHANGED <<w, A, LFQ, T_vec, S, i_dec, out, S2, out2, q, q_prev, q_op, ops, cmd, n_file>>

\* the low-frequency pairs of the clustered array TP, inserted in Q
RECURSIVE FillLowFrequency(_, _, _, _, _)
FillLowFrequency(Q, tp, t, i, f) ==
    IF i >= tp_size(tp) THEN Q
    ELSE IF pair_starting_at(t, tp_at(tp, i)) = pair_starting_at(t, tp_at(tp, i-1))
         THEN FillLowFrequency(Q, tp, t, i+1, f+1)
         ELSE FillLowFrequency(
                  IF f > 1
                  THEN QInsert(Q, ll_el(pair_starting_at(t, tp_at(tp, i-1)), i - f, f, f))
                  ELSE Q,
                  tp, t, i+1, 1)

\* faulty variant of StartLowFrequency: the low-frequency phase may start
\* while the high-frequency queue still has a pair
StartLowFrequencyEarly ==
    /\ pc = "hf"
    /\ ~QAfterMax(HFQ).bad
    /\ LET Start(tp1, Q) ==
               /\ TP' = tp1
               /\ LFQ' = Q
               /\ pc' = IF Q.bad THEN "abort" ELSE "lf"
           Fill(tp1) ==
               Start(tp1, FillLowFrequency(new_lf_queue(min_high_frequency(Len(w)) - 1),
                                           tp1, T, 1, 1))
           Cluster(tp0) == Fill(cluster(tp0, T, 0, tp_size(tp0)))
       IN Cluster(fill_with_text_positions(TP, T))
    /\ rounds' = 0
    /\ UNCHANGED <<w, A, T, HFQ, X, G, T_vec, last_freq, S, i_dec, out, S2, out2,
                   q, q_prev, q_op, ops, cmd, n_file>>

\* compute_repair (3): the high-frequency queue is empty; store all text
\* positions, cluster them and fill the low-frequency queue
StartLowFrequency ==
    /\ pc = "hf"
    /\ ~QAfterMax(HFQ).bad
    /\ QMax(HFQ) = nullpair
    /\ LET Start(tp1, Q) ==
               /\ TP' = tp1
               /\ LFQ' = Q
               /\ pc' = IF Q.bad THEN "abort" ELSE "lf"
           Fill(tp1) ==
               Start(tp1, FillLowFrequency(new_lf_queue(min_high_frequency(Len(w)) - 1),
                                           tp1, T, 1, 1))
           Cluster(tp0) == Fill(cluster(tp0, T, 0, tp_size(tp0)))
       IN Cluster(fill_with_text_positions(TP, T))
    /\ rounds' = 0
    /\ UNCHANGED <<w, A, T, HFQ, X, G, T_vec, last_freq, S, i_dec, out, S2, out2,
                   q, q_prev, q_op, ops, cmd, n_file>>

\* compute_repair (4): one substitution round of the low-frequency phase
LFRound ==
    /\ pc = "lf"
    /\ LET Round(AB, Q0, s) ==
               /\ Q0.bad \/ AB # nullpair
               /\ T' = s.T
               /\ TP' = s.TP
               /\ LFQ' = s.Q
               /\ IF AB = nullpair
                  THEN UNCHANGED <<G, last_freq, X, rounds>> /\ pc' = "abort"
                  ELSE /\ G' = Append(G, AB)
                       /\ last_freq' = IF QAtOk(Q0, AB) THEN QAt(Q0, AB).F_ab ELSE last_freq
                       /\ rounds' = rounds + 1
                       /\ IF s.Q.bad
                          THEN X' = X /\ pc' = "abort"
                          ELSE X' = X + 1 /\ pc' = "lf"
       IN Round(QMax(LFQ), QAfterMax(LFQ),
                substitution_round([T |-> T, TP |-> TP, Q |-> LFQ], X))
    /\ UNCHANGED <<w, A, HFQ, T_vec, S, i_dec, out, S2, out2, q, q_prev, q_op, ops, cmd, n_file>>

\* faulty variant of LiveText: the scan of the text stops at the first blank
RECURSIVE LiveTextUntilBlank(_, _)
LiveTextUntilBlank(t, i) ==
    IF i >= text_size(t) \/ is_blank(t, i) THEN <<>>
    ELSE <<text_at(t, i)>> \o LiveTextUntilBlank(t, i+1)

\* the non-blank characters of the text, in text order
RECURSIVE LiveText(_, _)
LiveText(t, i) ==
    IF i >= text_size(t) THEN <<>>
    ELSE (IF is_blank(t, i) THEN <<>> ELSE <<text_at(t, i)>>) \o LiveText(t, i+1)

\* compute_repair (5): the low-frequency queue is empty; output the text
EmitText ==
    /\ pc = "lf"
    /\ ~QAfterMax(LFQ).bad
    /\ QMax(LFQ) = nullpair
    /\ T_vec' = LiveText(T, 0)
    /\ pc' = "dec"
    /\ UNCHANGED <<w, A, T, TP, HFQ, LFQ, X, G, last_freq, rounds, S, i_dec, out, S2, out2,
                   q, q_prev, q_op, ops, cmd, n_file>>

(***************************************************************************)
(* decompress: expand the grammar. Both versions pop a symbol, output it   *)
(* if it is a character and push the right-hand side of its rule if not.   *)
(***************************************************************************)
\* faulty variant of decompress_pop: the left symbol of the rule is pushed
\* first, so that the right one is expanded first
decompress_pop_swapped(a, g, d) ==
    LET top == d.S[Len(d.S)]
        rest == SubSeq(d.S, 1, Len(d.S) - 1)
    IN IF top < Len(a)
       THEN [S |-> rest, out |-> Append(d.out, a[top+1])]
       ELSE LET ab == g[(top - Len(a)) + 1]
            IN [S |-> rest \o <<ab[1], ab[2]>>, out |-> d.out]

\* one iteration of while(!S.empty()): d = [S, out]
decompress_pop(a, g, d) ==
    LET top == d.S[Len(d.S)]
        rest == SubSeq(d.S, 1, Len(d.S) - 1)
    IN IF top < Len(a)
       THEN [S |-> rest, out |-> Append(d.out, a[top+1])]
       ELSE LET ab == g[(top - Len(a)) + 1]
            IN [S |-> rest \o <<ab[2], ab[1]>>, out |-> d.out]

\* the symbol on the stack is a character or has a rule
PopDefined(a, g, stack) == stack[Len(stack)] < Len(a) + Len(g)

\* rp.cpp: for each symbol of Tc, S.push(Tc[i])
DecompressPush ==
    /\ pc = "dec"
    /\ S = <<>>
    /\ i_dec < Len(T_vec)
    /\ S' = <<T_vec[i_dec+1]>>
    /\ i_dec' = i_dec + 1
    /\ UNCHANGED <<pc, w, A, T, TP, HFQ, LFQ, X, G, T_vec, last_freq, rounds, out, S2, out2,
                   q, q_prev, q_op, ops, cmd, n_file>>

\* rp.cpp: an iteration of the inner loop
DecompressPop ==
    /\ pc = "dec"
    /\ S # <<>>
    /\ IF PopDefined(A, G, S)
       THEN LET d == decompress_pop(A, G, [S |-> S, out |-> out])
            IN S' = d.S /\ out' = d.out /\ pc' = pc
       ELSE pc' = "abort" /\ UNCHANGED <<S, out>>
    /\ UNCHANGED <<w, A, T, TP, HFQ, LFQ, X, G, T_vec, last_freq, rounds, i_dec, S2, out2,
                   q, q_prev, q_op, ops, cmd, n_file>>

\* rp.cpp: all symbols of Tc are expanded
DecompressDone ==
    /\ pc = "dec"
    /\ S = <<>>
    /\ i_dec = Len(T_vec)
    /\ pc' = "dec2"
    /\ UNCHANGED <<w, A, T, TP, HFQ, LFQ, X, G, T_vec, last_freq, rounds, S, i_dec, out,
                   S2, out2, q, q_prev, q_op, ops, cmd, n_file>>

\* repair-decompress.cpp: push Tc on the stack, the first symbol on top
Decompress2Push ==
    /\ pc = "dec2"
    /\ S2' = [k \in 1..Len(T_vec) |-> T_vec[Len(T_vec) - k + 1]]
    /\ out2' = <<>>
    /\ pc' = "dec2_pop"
    /\ UNCHANGED <<w, A, T, TP, HFQ, LFQ, X, G, T_vec, last_freq, rounds, S, i_dec, out,
                   q, q_prev, q_op, ops, cmd, n_file>>

\* repair-decompress.cpp: an iteration of while(!S.empty())
Decompress2Pop ==
    /\ pc = "dec2_pop"
    /\ S2 # <<>>
    /\ IF PopDefined(A, G, S2)
       THEN LET d == decompress_pop(A, G, [S |-> S2, out |-> out2])
            IN S2' = d.S /\ out2' = d.out /\ pc' = pc
       ELSE pc' = "abort" /\ UNCHANGED <<S2, out2>>
    /\ UNCHANGED <<w, A, T, TP, HFQ, LFQ, X, G, T_vec, last_freq, rounds, S, i_dec, out,
                   q, q_prev, q_op, ops, cmd, n_file>>

\* repair-decompress.cpp: the stack is empty
Decompress2Done ==
    /\ pc = "dec2_pop"
    /\ S2 = <<>>
    /\ pc' = "done"
    /\ UNCHANGED <<w, A, T, TP, HFQ, LFQ, X, G, T_vec, last_freq, rounds, S, i_dec, out,
                   S2, out2, q, q_prev, q_op, ops, cmd, n_file>>

(***************************************************************************)
(* Specification of the compressor followed by the decompressors           *)
(***************************************************************************)
Init ==
    /\ pc = "start"
    /\ w \in Inputs
    /\ A = <<>>
    /\ T = None
    /\ TP = None
    /\ HFQ = None
    /\ LFQ = None
    /\ X = 0
    /\ G = <<>>
    /\ T_vec = <<>>
    /\ last_freq = 0
    /\ rounds = 0
    /\ S = <<>>
    /\ i_dec = 0
    /\ out = <<>>
    /\ S2 = <<>>
    /\ out2 = <<>>
    /\ q = None
    /\ q_prev = None
    /\ q_op = None
    /\ ops = 0
    /\ cmd = None
    /\ n_file = 0

Next ==
    \/ ReadInput
    \/ HFRound
    \/ StartLowFrequency
    \/ LFRound
    \/ EmitText
    \/ DecompressPush
    \/ DecompressPop
    \/ DecompressDone
    \/ Decompress2Push
    \/ Decompress2Pop
    \/ Decompress2Done

Spec == Init /\ [][Next]_vars

\* the compressor and the decompressors as a running process: a step that
\* can be taken is taken. This is WF_vars(Next) with ENABLED <<Next>>_vars
\* written out: a step of Next is possible in every state but the final
\* ones, pc = "done" and pc = "abort"
Final == pc \in {"done", "abort"}

SpecW ==
    /\ Init /\ [][Next]_vars
    /\ ([]<>Final \/ []<><<Next>>_vars)
    /\ WF_vars(EmitText)

(***************************************************************************)
(* Specification of the compressor with the substitution round taken call  *)
(* by call: the first loop of substitution_round is one step, every        *)
(* iteration half of the second loop (one possible call of                 *)
(* synchro_or_remove_pair) is one step, and the final synchronize(AB) is   *)
(* one step. q_op holds the locals of the round: AB, P_AB, L_AB, the       *)
(* index j, the text position i = TP[j], the half of the iteration, the    *)
(* pair on which the last step called synchro_or_remove_pair and the       *)
(* q_el = Q[ab] that the call read; it also keeps the history of the       *)
(* round that the properties of the round refer to.                        *)
(***************************************************************************)
InSecondLoop == pc \in {"hf_loop", "lf_loop"}

\* the queue of the phase
RoundQueue == IF pc \in {"hf", "hf_loop"} THEN HFQ ELSE LFQ

RoundState == [T |-> T, TP |-> TP, Q |-> RoundQueue]

\* faulty variant of disappeared_By: a right neighbour that reads X is taken
\* as it is
disappeared_By_as_read(t, i, AB, x) ==
    IF pair_starting_at(t, i) = nullpair THEN nullpair
    ELSE <<AB[2], pair_starting_at(t, i)[2]>>

\* By and xA of the second loop: the pairs that disappeared around X at i
disappeared_By(t, i, AB, x) ==
    IF pair_starting_at(t, i) = nullpair THEN nullpair
    ELSE <<AB[2], IF pair_starting_at(t, i)[2] = x THEN AB[1] ELSE pair_starting_at(t, i)[2]>>

disappeared_xA(t, i, AB, x) ==
    IF pair_ending_at(t, i) = nullpair THEN nullpair
    ELSE <<IF pair_ending_at(t, i)[1] = x THEN AB[2] ELSE pair_ending_at(t, i)[1], AB[1]>>

\* the state s is stored; a failed assertion ends the run
StoreRound(s, next_pc) ==
    /\ T' = s.T
    /\ TP' = s.TP
    /\ IF pc \in {"hf", "hf_loop"}
       THEN HFQ' = s.Q /\ LFQ' = LFQ
       ELSE LFQ' = s.Q /\ HFQ' = HFQ
    /\ pc' = IF s.Q.bad THEN "abort" ELSE next_pc

\* faulty variant of first_loop_el: the first loop leaves out the last entry
\* of the range
first_loop_el_short(s0, AB, x, q_el) ==
    IF q_el.F_ab < QMinimumFrequency(s0.Q) THEN Fail(s0)
    ELSE ReplaceLoop(s0, AB, x, q_el.P_ab, q_el.P_ab + q_el.L_ab - 1)

\* substitution_round up to the end of its first loop
first_loop_el(s0, AB, x, q_el) ==
    IF q_el.F_ab < QMinimumFrequency(s0.Q) THEN Fail(s0)
    ELSE ReplaceLoop(s0, AB, x, q_el.P_ab, q_el.P_ab + q_el.L_ab)

first_loop(s0, AB, x) ==
    IF AB = nullpair \/ ~QAtOk(s0.Q, AB) THEN Fail(s0)
    ELSE first_loop_el(s0, AB, x, QAt(s0.Q, AB))

\* the pairs whose count the first loop has lowered: queued in Q0, and no
\* longer queued or queued with a smaller F_ab in Q1
DecreasedPairs(Q0, Q1) ==
    {XY \in (0..X) \X (0..X) :
        /\ QContains(Q0, XY)
        /\ QAtOk(Q0, XY)
        /\ \/ ~QContains(Q1, XY)
           \/ ~QAtOk(Q1, XY)
           \/ QAt(Q1, XY).F_ab < QAt(Q0, XY).F_ab}

\* the locals of the round, and its history: the text before the round
\* (T_start), the pairs decreased by the first loop, those of them that the
\* first loop left in the queue, and the pairs on which
\* synchro_or_remove_pair has been called
RoundLocals(AB, q_el, Q1) ==
    [AB |-> AB, P_AB |-> q_el.P_ab, L_AB |-> q_el.L_ab, j |-> q_el.P_ab,
     i |-> 0, half |-> 0, call |-> nullpair, q_el |-> q_el,
     T_start |-> T, decreased |-> DecreasedPairs(QAfterMax(RoundQueue), Q1),
     still_queued |-> {XY \in DecreasedPairs(QAfterMax(RoundQueue), Q1) : QContains(Q1, XY)},
     visited |-> {}]

\* AB = Q.max(), G.push_back(AB) and the first loop
RoundBegin ==
    /\ pc \in {"hf", "lf"}
    /\ QAfterMax(RoundQueue).bad \/ QMax(RoundQueue) # nullpair
    /\ StoreRound(first_loop([RoundState EXCEPT !.Q = QAfterMax(RoundQueue)],
                             QMax(RoundQueue), X),
                  IF pc = "hf" THEN "hf_loop" ELSE "lf_loop")
    /\ IF QMax(RoundQueue) = nullpair
       THEN UNCHANGED <<G, last_freq, rounds, q_op>>
       ELSE /\ G' = Append(G, QMax(RoundQueue))
            /\ rounds' = rounds + 1
            /\ IF QAtOk(QAfterMax(RoundQueue), QMax(RoundQueue))
               THEN /\ last_freq' = QAt(QAfterMax(RoundQueue), QMax(RoundQueue)).F_ab
                    /\ q_op' = RoundLocals(QMax(RoundQueue),
                                           QAt(QAfterMax(RoundQueue), QMax(RoundQueue)),
                                           first_loop([RoundState EXCEPT
                                                          !.Q = QAfterMax(RoundQueue)],
                                                      QMax(RoundQueue), X).Q)
               ELSE UNCHANGED <<last_freq, q_op>>
    /\ UNCHANGED <<w, A, X, T_vec, S, i_dec, out, S2, out2, q, q_prev, ops, cmd, n_file>>

\* one possible call of synchro_or_remove_pair on the pair ab
SecondLoopCall(ab, j, i, half) ==
    IF QContains(RoundQueue, ab) /\ ab # q_op.AB
    THEN /\ StoreRound(synchro_or_remove_pair(RoundState, ab), pc)
         /\ q_op' = [q_op EXCEPT !.j = j, !.i = i, !.half = half, !.call = ab,
                                 !.visited = @ \cup {ab},
                                 !.q_el = IF QAtOk(RoundQueue, ab)
                                          THEN QAt(RoundQueue, ab) ELSE @]
    ELSE /\ q_op' = [q_op EXCEPT !.j = j, !.i = i, !.half = half, !.call = nullpair]
         /\ UNCHANGED <<pc, T, TP, HFQ, LFQ>>

\* second loop, first half of iteration j: i = TP[j] and the call on By
SecondLoopBy ==
    /\ InSecondLoop
    /\ q_op.j < q_op.P_AB + q_op.L_AB
    /\ q_op.half = 0
    /\ IF pair_starting_at(T, tp_at(TP, q_op.j)) = q_op.AB
       THEN StoreRound(Fail(RoundState), pc) /\ UNCHANGED q_op
       ELSE IF text_at(T, tp_at(TP, q_op.j)) = X
       THEN SecondLoopCall(disappeared_By(T, tp_at(TP, q_op.j), q_op.AB, X),
                           q_op.j, tp_at(TP, q_op.j), 1)
       ELSE /\ q_op' = [q_op EXCEPT !.j = q_op.j + 1, !.call = nullpair]
            /\ UNCHANGED <<pc, T, TP, HFQ, LFQ>>
    /\ UNCHANGED <<w, A, X, G, T_vec, last_freq, rounds, S, i_dec, out, S2, out2,
                   q, q_prev, ops, cmd, n_file>>

\* second loop, second half of iteration j: the call on xA
SecondLoopxA ==
    /\ InSecondLoop
    /\ q_op.j < q_op.P_AB + q_op.L_AB
    /\ q_op.half = 1
    /\ SecondLoopCall(disappeared_xA(T, q_op.i, q_op.AB, X), q_op.j + 1, q_op.i, 0)
    /\ UNCHANGED <<w, A, X, G, T_vec, last_freq, rounds, S, i_dec, out, S2, out2,
                   q, q_prev, ops, cmd, n_file>>

\* synchronize(AB), the last assertion and X++
RoundEnd ==
    /\ InSecondLoop
    /\ q_op.j >= q_op.P_AB + q_op.L_AB
    /\ StoreRound(substitution_round_sync(RoundState, q_op.AB),
                  IF pc = "hf_loop" THEN "hf" ELSE "lf")
    /\ X' = IF substitution_round_sync(RoundState, q_op.AB).Q.bad THEN X ELSE X + 1
    /\ q_op' = None
    /\ UNCHANGED <<w, A, G, T_vec, last_freq, rounds, S, i_dec, out, S2, out2,
                   q, q_prev, ops, cmd, n_file>>

\* k copies of the word u
RECURSIVE Power(_, _)
Power(u, k) == IF k = 0 THEN <<>> ELSE u \o Power(u, k-1)

\* the input files of this specification: the texts of Inputs, and the
\* texts (abc)^i (ab)^j (bc)^k b^l with up to MaxRepeat copies of each word
\* and up to MaxRoundLen bytes
RepeatedWords ==
    {Power(<<97, 98, 99>>, i) \o Power(<<97, 98>>, j) \o Power(<<98, 99>>, k) \o Power(<<98>>, l) :
        i \in 0..MaxRepeat, j \in 0..MaxRepeat, k \in 0..MaxRepeat, l \in 0..MaxRepeat}

RoundTexts == Inputs \cup {u \in RepeatedWords : Len(u) <= MaxRoundLen}

InitY ==
    /\ pc = "start"
    /\ w \in RoundTexts
    /\ A = <<>>
    /\ T = None
    /\ TP = None
    /\ HFQ = None
    /\ LFQ = None
    /\ X = 0
    /\ G = <<>>
    /\ T_vec = <<>>
    /\ last_freq = 0
    /\ rounds = 0
    /\ S = <<>>
    /\ i_dec = 0
    /\ out = <<>>
    /\ S2 = <<>>
    /\ out2 = <<>>
    /\ q = None
    /\ q_prev = None
    /\ q_op = None
    /\ ops = 0
    /\ cmd = None
    /\ n_file = 0

NextY ==
    \/ ReadInput
    \/ RoundBegin
    \/ SecondLoopBy
    \/ SecondLoopxA
    \/ RoundEnd
    \/ StartLowFrequency

SpecY == InitY /\ [][NextY]_vars

(***************************************************************************)
(* Specification of the low-frequency queue driven on its own: any         *)
(* sequence of at most MaxOps calls of insert, decrease, remove, update    *)
(* and max that respects the preconditions of the calls.                   *)
(***************************************************************************)
\* the pairs given to the queue
QPairs == {<<0, 0>>, <<0, 1>>, <<1, 0>>, <<1, 1>>}

\* P_ab of the element inserted for pair ab
QPosition(ab) == 2 * ab[1] + ab[2]

QueueCall(name, ab, res) ==
    /\ q_prev' = q
    /\ q_op' = [op |-> name, ab |-> ab, res |-> res]
    /\ ops' = ops + 1
    /\ pc' = IF q'.bad THEN "abort" ELSE pc
    /\ UNCHANGED <<w, A, T, TP, HFQ, LFQ, X, G, T_vec, last_freq, rounds,
                   S, i_dec, out, S2, out2, cmd, n_file>>

\* insert({ab, P_ab, L_ab, F_ab}) for a pair that is not in the queue
LfInsert ==
    /\ pc = "queue" /\ ops < MaxOps
    /\ \E ab \in QPairs \ DOMAIN q.H : \E f \in 2..MaxFreq :
         /\ q' = lf_insert(q, ll_el(ab, QPosition(ab), f + 1, f))
         /\ QueueCall("insert", ab, nullpair)

\* decrease(ab) for a pair of the queue
LfDecrease ==
    /\ pc = "queue" /\ ops < MaxOps
    /\ \E ab \in DOMAIN q.H :
         /\ q' = lf_decrease(q, ab)
         /\ QueueCall("decrease", ab, nullpair)

\* remove(ab) for a pair of the queue
LfRemove ==
    /\ pc = "queue" /\ ops < MaxOps
    /\ \E ab \in DOMAIN q.H :
         /\ q' = lf_remove(q, ab)
         /\ QueueCall("remove", ab, nullpair)

\* update({ab, P_ab, L_ab, F_ab}) for a pair of the queue, with its frequency
LfUpdate ==
    /\ pc = "queue" /\ ops < MaxOps
    /\ \E ab \in DOMAIN q.H :
         /\ lf_at_ok(q, ab)
         /\ q' = lf_update(q, ll_el(ab, QPosition(ab) + 4, lf_at(q, ab).F_ab, lf_at(q, ab).F_ab))
         /\ QueueCall("update", ab, nullpair)

\* max()
LfMax ==
    /\ pc = "queue" /\ ops < MaxOps
    /\ q' = lf_after_max(q)
    /\ QueueCall("max", nullpair, lf_max(q))

InitQ ==
    /\ pc = "queue"
    /\ q = new_lf_queue(MaxFreq)
    /\ q_prev = new_lf_queue(MaxFreq)
    /\ q_op = [op |-> "new", ab |-> nullpair, res |-> nullpair]
    /\ ops = 0
    /\ cmd = None
    /\ n_file = 0
    /\ w = <<>>
    /\ A = <<>>
    /\ T = None
    /\ TP = None
    /\ HFQ = None
    /\ LFQ = None
    /\ X = 0
    /\ G = <<>>
    /\ T_vec = <<>>
    /\ last_freq = 0
    /\ rounds = 0
    /\ S = <<>>
    /\ i_dec = 0
    /\ out = <<>>
    /\ S2 = <<>>
    /\ out2 = <<>>

NextQ == LfInsert \/ LfDecrease \/ LfRemove \/ LfUpdate \/ LfMax

SpecQ == InitQ /\ [][NextQ]_vars

(***************************************************************************)
(* Specification of the two queues with their arenas: the low-frequency    *)
(* queue (pc = "queue") or the high-frequency queue with the list B        *)
(* (pc = "arena", minimum frequency 2) under any sequence of at most       *)
(* MaxOps calls of insert, decrease and remove that respects the           *)
(* preconditions of the calls.                                             *)
(***************************************************************************)
\* insert({ab, P_ab, L_ab, F_ab}) for a pair that is not in the queue
ArenaInsert ==
    /\ pc = "arena" /\ ops < MaxOps
    /\ \E ab \in QPairs \ DOMAIN q.H : \E f \in 2..MaxFreq :
         /\ q' = hfq_insert(q, ll_el(ab, QPosition(ab), f + 1, f))
         /\ QueueCall("insert", ab, nullpair)

\* decrease(ab) for a pair of the queue
ArenaDecrease ==
    /\ pc = "arena" /\ ops < MaxOps
    /\ \E ab \in DOMAIN q.H :
         /\ q' = hfq_decrease(q, ab)
         /\ QueueCall("decrease", ab, nullpair)

\* remove(ab) for a pair of the queue
ArenaRemove ==
    /\ pc = "arena" /\ ops < MaxOps
    /\ \E ab \in DOMAIN q.H :
         /\ q' = hfq_remove(q, ab)
         /\ QueueCall("remove", ab, nullpair)

InitA ==
    /\ \/ pc = "queue" /\ q = new_lf_queue(MaxFreq)
       \/ pc = "arena" /\ q = new_hf_queue(Cardinality(QPairs), 2)
    /\ q_prev = q
    /\ q_op = [op |-> "new", ab |-> nullpair, res |-> nullpair]
    /\ ops = 0
    /\ cmd = None
    /\ n_file = 0
    /\ w = <<>>
    /\ A = <<>>
    /\ T = None
    /\ TP = None
    /\ HFQ = None
    /\ LFQ = None
    /\ X = 0
    /\ G = <<>>
    /\ T_vec = <<>>
    /\ last_freq = 0
    /\ rounds = 0
    /\ S = <<>>
    /\ i_dec = 0
    /\ out = <<>>
    /\ S2 = <<>>
    /\ out2 = <<>>

NextA == LfInsert \/ LfDecrease \/ LfRemove \/ ArenaInsert \/ ArenaDecrease \/ ArenaRemove

SpecA == InitA /\ [][NextA]_vars

(***************************************************************************)
(* Specification of the high-frequency queue driven on its own: any        *)
(* sequence of at most MaxHfOps calls of insert, update, decrease, remove  *)
(* and max that respects the preconditions of the calls; the queue is      *)
(* built with minimum frequency 2.                                         *)
(***************************************************************************)
\* the pairs given to the queue
HfPairs == {<<0, 0>>, <<0, 1>>, <<1, 0>>}

\* insert({ab, P_ab, L_ab, F_ab}) for a pair that is not in the queue
HfInsert ==
    /\ pc = "hfqueue" /\ ops < MaxHfOps
    /\ \E ab \in HfPairs \ DOMAIN q.H : \E f \in hf_minimum_frequency(q)..MaxFreq :
         /\ q' = hf_insert(q, ll_el(ab, QPosition(ab), f + 1, f))
         /\ QueueCall("insert", ab, nullpair)

\* update({ab, P_ab, L_ab, F_ab}) for a pair of the queue
HfUpdate ==
    /\ pc = "hfqueue" /\ ops < MaxHfOps
    /\ \E ab \in DOMAIN q.H : \E f \in hf_minimum_frequency(q)..MaxFreq :
         /\ q' = hf_update(q, ll_el(ab, QPosition(ab) + 4, f, f))
         /\ QueueCall("update", ab, nullpair)

\* decrease(ab) for a pair of the queue whose frequency is positive
HfDecrease ==
    /\ pc = "hfqueue" /\ ops < MaxHfOps
    /\ \E ab \in DOMAIN q.H :
         /\ hf_at(q, ab).F_ab > 0
         /\ q' = hf_decrease(q, ab)
         /\ QueueCall("decrease", ab, nullpair)

\* remove(ab) for a pair of the queue
HfRemove ==
    /\ pc = "hfqueue" /\ ops < MaxHfOps
    /\ \E ab \in DOMAIN q.H :
         /\ q' = hf_remove(q, ab)
         /\ QueueCall("remove", ab, nullpair)

\* max()
HfMax ==
    /\ pc = "hfqueue" /\ ops < MaxHfOps
    /\ q' = QAfterMax(q)
    /\ QueueCall("max", nullpair, hf_max(q))

InitH ==
    /\ pc = "hfqueue"
    /\ q = hf_init(2)
    /\ q_prev = hf_init(2)
    /\ q_op = [op |-> "new", ab |-> nullpair, res |-> nullpair]
    /\ ops = 0
    /\ cmd = None
    /\ n_file = 0
    /\ w = <<>>
    /\ A = <<>>
    /\ T = None
    /\ TP = None
    /\ HFQ = None
    /\ LFQ = None
    /\ X = 0
    /\ G = <<>>
    /\ T_vec = <<>>
    /\ last_freq = 0
    /\ rounds = 0
    /\ S = <<>>
    /\ i_dec = 0
    /\ out = <<>>
    /\ S2 = <<>>
    /\ out2 = <<>>

NextH == HfInsert \/ HfUpdate \/ HfDecrease \/ HfRemove \/ HfMax

SpecH == InitH /\ [][NextH]_vars

(***************************************************************************)
(* Specification of the text driven on its own: a text of at most MaxText  *)
(* characters is filled as compute_repair fills it, then replace is called *)
(* at any position that meets its assertions, any number of times.         *)
(***************************************************************************)
InitT ==
    /\ pc = "text"
    /\ w \in Strings(MaxText)
    /\ Len(w) >= 1
    /\ T = FillText(w, 0, [A |-> <<>>, T |-> new_text(Len(w))]).T
    /\ A = FillText(w, 0, [A |-> <<>>, T |-> new_text(Len(w))]).A
    /\ X = Len(A)
    /\ TP = None
    /\ HFQ = None
    /\ LFQ = None
    /\ G = <<>>
    /\ T_vec = <<>>
    /\ last_freq = 0
    /\ rounds = 0
    /\ S = <<>>
    /\ i_dec = 0
    /\ out = <<>>
    /\ S2 = <<>>
    /\ out2 = <<>>
    /\ q = None
    /\ q_prev = None
    /\ q_op = None
    /\ ops = 0
    /\ cmd = None
    /\ n_file = 0

\* T.replace(i, X) with a fresh symbol X
TextReplace ==
    /\ pc = "text"
    /\ \E i \in 0..(text_size(T) - 1) :
         /\ replace_ok(T, i)
         /\ T' = replace(T, i, X)
    /\ X' = X + 1
    /\ UNCHANGED <<pc, w, A, TP, HFQ, LFQ, G, T_vec, last_freq, rounds,
                   S, i_dec, out, S2, out2, q, q_prev, q_op, ops, cmd, n_file>>

NextT == TextReplace

SpecT == InitT /\ [][NextT]_vars

(***************************************************************************)
(* skippable_text_hf: a bit vector non_blank of words marks the live       *)
(* positions; a run of blanks that covers whole words stores its length in *)
(* skips, at its first and at its last whole word. T[i+1] holds the symbol *)
(* that follows live position i. A word is a sequence of word_bits bits,   *)
(* most significant first, so bit 63-(i%64) of the code is bit i%word_bits *)
(* of the sequence.                                                        *)
(***************************************************************************)
thf_blocks(n) == (n \div word_bits) + (IF (n % word_bits) # 0 THEN 1 ELSE 0)

\* number of leading zero bits of a word; the word size when x = 0
clz(x) ==
    IF \A k \in 1..word_bits : ~x[k] THEN word_bits
    ELSE (CHOOSE k \in 1..word_bits : x[k] /\ \A m \in 1..(k-1) : ~x[m]) - 1

\* number of trailing zero bits of a word; the word size when x = 0
ctz(x) ==
    IF \A k \in 1..word_bits : ~x[k] THEN word_bits
    ELSE word_bits - (CHOOSE k \in 1..word_bits : x[k] /\ \A m \in (k+1)..word_bits : ~x[m])

\* x != 0
thf_nonzero(x) == \E k \in 1..word_bits : x[k]

\* x & MASK with MASK = (~0) >> (off+1), and 0 when off is the last bit
thf_after(x, off) == [k \in 1..word_bits |-> k > off + 1 /\ x[k]]

\* x >> (64 - off)
thf_before(x, off) ==
    [k \in 1..word_bits |-> IF k > word_bits - off THEN x[k - (word_bits - off)] ELSE FALSE]

\* constructor: every position live, the padding of the last word zero
thf_new_text(n, largest_symbol) ==
    [T |-> [i \in 1..n |-> 0],
     non_blank |-> [b \in 1..thf_blocks(n) |->
                       [k \in 1..word_bits |-> (b-1) * word_bits + k <= n]],
     skips |-> [b \in 1..thf_blocks(n) |-> 0],
     nb |-> n,
     eof |-> largest_symbol + 1]

thf_size(t) == Len(t.T)

thf_is_blank(t, i) == ~t.non_blank[(i \div word_bits) + 1][(i % word_bits) + 1]

\* operator[]
thf_at(t, i) == IF thf_is_blank(t, i) THEN BLANK ELSE t.T[i+1]

thf_number_of_non_blank_characters(t) == t.nb

\* called on a non-blank position i
next_non_blank_position(t, i) ==
    LET block == i \div word_bits
        off == i % word_bits
        next_off == clz(thf_after(t.non_blank[block+1], off))
    IN IF next_off < word_bits THEN block * word_bits + next_off
       ELSE IF block = Len(t.non_blank) - 1 THEN NULL
       ELSE IF thf_nonzero(t.non_blank[block+2])
            THEN (block+1) * word_bits + clz(t.non_blank[block+2])
       ELSE IF block + 1 = Len(t.non_blank) - 1 THEN NULL
       ELSE IF i + t.skips[block+2] + 1 < Len(t.T) THEN i + t.skips[block+2] + 1
       ELSE NULL

\* linear scan to the right of a non-blank position i
RECURSIVE thf_scan_right(_, _)
thf_scan_right(t, j) ==
    IF j < Len(t.T) /\ thf_is_blank(t, j) THEN thf_scan_right(t, j+1)
    ELSE IF j = Len(t.T) THEN NULL ELSE j

next_non_blank_position_trivial(t, i) ==
    IF i = Len(t.T) - 1 THEN NULL ELSE thf_scan_right(t, i+1)

\* called on a non-blank position i
prev_non_blank_position(t, i) ==
    LET block == i \div word_bits
        off == i % word_bits
        prev_bits == thf_before(t.non_blank[block+1], off)
    IN IF off # 0 /\ thf_nonzero(prev_bits) THEN i - (ctz(prev_bits) + 1)
       ELSE IF block = 0 THEN NULL
       ELSE IF thf_nonzero(t.non_blank[block])
            THEN block * word_bits - (ctz(t.non_blank[block]) + 1)
       ELSE IF block - 1 = 0 THEN NULL
       ELSE IF i >= t.skips[block] + 1 THEN i - (t.skips[block] + 1)
       ELSE NULL

\* replace, first part: bit i2 of non_blank is cleared and the count of live
\* positions decremented
thf_clear(t, i2) ==
    [t EXCEPT !.non_blank[(i2 \div word_bits) + 1][(i2 % word_bits) + 1] = FALSE,
              !.nb = t.nb - 1]

\* the comparison b1 < non_blank.size() - 2 of replace: the right side is
\* unsigned and wraps around to the largest value when the text has one word
thf_before_last_but_one(t, b1) ==
    IF Len(t.non_blank) < 2 THEN TRUE ELSE b1 < Len(t.non_blank) - 2

\* replace with no third position reads non_blank[b1+1] and writes
\* skips[b1+1] in a text of one word: both lie past the end of the vectors
thf_out_of_bounds(t, i, i3) ==
    /\ i3 = NULL
    /\ thf_before_last_but_one(t, i \div word_bits)
    /\ (i \div word_bits) + 1 >= Len(t.non_blank)

\* faulty variant of thf_store_skips: the length of a run that covers whole
\* words is stored at the first of these words only
thf_store_skips_first(t, i, i3) ==
    IF i3 # NULL /\ i3 \div word_bits > (i \div word_bits) + 1
    THEN [t EXCEPT !.skips[(i \div word_bits) + 2] = (i3 - i) - 1]
    ELSE IF i3 = NULL /\ thf_before_last_but_one(t, i \div word_bits)
              /\ ~thf_out_of_bounds(t, i, i3)
    THEN [t EXCEPT !.skips[(i \div word_bits) + 2] = (Len(t.T) - i) - 1]
    ELSE t

\* replace, second part: the skip lengths (case 1: a whole word lies
\* between i and i3; case 2: there is no i3)
thf_store_skips(t, i, i3) ==
    IF i3 # NULL /\ i3 \div word_bits > (i \div word_bits) + 1
    THEN [t EXCEPT !.skips[(i \div word_bits) + 2] = (i3 - i) - 1,
                   !.skips[i3 \div word_bits] = (i3 - i) - 1]
    ELSE IF i3 = NULL /\ thf_before_last_but_one(t, i \div word_bits)
              /\ ~thf_out_of_bounds(t, i, i3)
    THEN [t EXCEPT !.skips[(i \div word_bits) + 2] = (Len(t.T) - i) - 1]
    ELSE t

\* replace, third part: T[i] = X and T[i+1] = the symbol at i3 or eof; T
\* is a vector of uint16_t
thf_store_pair(t, i, i3, x) ==
    [t EXCEPT !.T[i+1] = x % (2 ^ 16),
              !.T[i+2] = IF i3 = NULL THEN t.eof % (2 ^ 16) ELSE t.T[i3+1]]

\* faulty variant of thf_store_prev: the slot after the previous live
\* position is left as it was
thf_store_prev_none(t, i, i0, x) == t

\* replace, fourth part: the copy of X after the previous live position
thf_store_prev(t, i, i0, x) ==
    IF i0 # NULL THEN [t EXCEPT !.T[i0+2] = x % (2 ^ 16)] ELSE t

\* replace, last part: the copy of X before i3
thf_store_next(t, i3, x) ==
    IF i3 # NULL /\ i3 > 1 /\ thf_is_blank(t, i3 - 2)
    THEN [t EXCEPT !.T[i3] = x % (2 ^ 16)] ELSE t

thf_replace_to(t, i, i3, x) ==
    thf_store_next(
        thf_store_prev(thf_store_pair(t, i, i3, x), i,
                       prev_non_blank_position(t, i), x),
        i3, x)

thf_replace_from(t, i, i2, x) ==
    thf_replace_to(
        thf_store_skips(thf_clear(t, i2), i, next_non_blank_position(t, i2)),
        i, next_non_blank_position(t, i2), x)

\* replace(i, X)
thf_replace(t, i, x) == thf_replace_from(t, i, next_non_blank_position(t, i), x)

\* the assertions of replace that read inside the vectors, on the text t
\* with position i2 cleared
thf_replace_asserts(t, u, i, i2, i3) ==
    /\ i < Len(t.T) - 1
    /\ ~thf_is_blank(t, i)
    /\ i2 # NULL
    /\ t.T[i+2] = t.T[i2+1]
    /\ t.nb > 0
    /\ (i3 # NULL /\ i3 \div word_bits > (i \div word_bits) + 1) =>
          /\ ~thf_nonzero(u.non_blank[(i \div word_bits) + 2])
          /\ ~thf_nonzero(u.non_blank[i3 \div word_bits])
    /\ (i3 = NULL /\ thf_before_last_but_one(t, i \div word_bits)
          /\ ~thf_out_of_bounds(t, i, i3)) =>
          ~thf_nonzero(u.non_blank[(i \div word_bits) + 2])
    /\ thf_is_blank(u, i + 1)
    /\ (i3 # NULL /\ i3 > 1 /\ thf_is_blank(u, i3 - 2)) => thf_is_blank(u, i3 - 1)

thf_replace_ok(t, i) ==
    /\ next_non_blank_position(t, i) # NULL
    /\ thf_replace_asserts(t, thf_clear(t, next_non_blank_position(t, i)), i,
                           next_non_blank_position(t, i),
                           next_non_blank_position(t, next_non_blank_position(t, i)))

thf_replace_ub(t, i) ==
    /\ next_non_blank_position(t, i) # NULL
    /\ thf_out_of_bounds(t, i, next_non_blank_position(t, next_non_blank_position(t, i)))

thf_blank_pair == <<BLANK, BLANK>>

\* pair_starting_at(i): the pair read from T[i] and the slot T[i+1]
thf_pair_starting_at(t, i) ==
    IF i = Len(t.T) - 1 \/ thf_is_blank(t, i) THEN thf_blank_pair
    ELSE IF t.T[i+2] = t.eof THEN thf_blank_pair
    ELSE <<t.T[i+1], t.T[i+2]>>

\* pair_starting_at_1(i): the pair read at i and at the next live position
thf_pair_starting_at_1(t, i) ==
    IF thf_is_blank(t, i) THEN thf_blank_pair
    ELSE IF next_non_blank_position(t, i) = NULL THEN thf_blank_pair
    ELSE <<t.T[i+1], t.T[next_non_blank_position(t, i) + 1]>>

(***************************************************************************)
(* Specification of skippable_text_hf driven on its own: a text of at most *)
(* MaxHfText characters is filled with set, then replace is called on any  *)
(* live position that has a live successor, any number of times, with the  *)
(* first symbol after the alphabet. A failed assertion, or the read past   *)
(* the end of non_blank, ends the run.                                     *)
(***************************************************************************)
thf_fill(file) ==
    [thf_new_text(Len(file), MaxHfText + 2) EXCEPT
        !.T = FillText(file, 0, [A |-> <<>>, T |-> new_text(Len(file))]).T.T]

InitF ==
    /\ pc = "text_hf"
    /\ w \in Strings(MaxHfText)
    /\ Len(w) >= 1
    /\ T = thf_fill(w)
    /\ A = FillText(w, 0, [A |-> <<>>, T |-> new_text(Len(w))]).A
    /\ X = Len(A)
    /\ TP = None
    /\ HFQ = None
    /\ LFQ = None
    /\ G = <<>>
    /\ T_vec = <<>>
    /\ last_freq = 0
    /\ rounds = 0
    /\ S = <<>>
    /\ i_dec = 0
    /\ out = <<>>
    /\ S2 = <<>>
    /\ out2 = <<>>
    /\ q = None
    /\ q_prev = None
    /\ q_op = None
    /\ ops = 0
    /\ cmd = None
    /\ n_file = 0

\* T.replace(i, X) with the symbol X of one round; every assertion holds
ThfReplace ==
    /\ pc = "text_hf"
    /\ \E i \in 0..(thf_size(T) - 2) :
         /\ ~thf_is_blank(T, i)
         /\ thf_replace_ok(T, i)
         /\ T' = thf_replace(T, i, X)
    /\ UNCHANGED <<pc, w, A, X, TP, HFQ, LFQ, G, T_vec, last_freq, rounds,
                   S, i_dec, out, S2, out2, q, q_prev, q_op, ops, cmd, n_file>>

\* T.replace(i, X) stopped by a failed assertion; the assertion on the word
\* read past the end of non_blank fails or not, as the memory there decides
ThfReplaceAbort ==
    /\ pc = "text_hf"
    /\ \E i \in 0..(thf_size(T) - 2) :
         /\ ~thf_is_blank(T, i)
         /\ next_non_blank_position(T, i) # NULL
         /\ ~thf_replace_ok(T, i) \/ thf_replace_ub(T, i)
    /\ pc' = "abort"
    /\ UNCHANGED <<w, A, T, X, TP, HFQ, LFQ, G, T_vec, last_freq, rounds,
                   S, i_dec, out, S2, out2, q, q_prev, q_op, ops, cmd, n_file>>

NextF == ThfReplace \/ ThfReplaceAbort

SpecF == InitF /\ [][NextF]_vars

(***************************************************************************)
(* skippable_text_hf under the replacements of several rounds: as SpecF,   *)
(* and the symbol X that replace writes moves on to the next one, at most  *)
(* MaxNewSymbols symbols in all.                                           *)
(***************************************************************************)
\* the end of a round: X++
ThfNextSymbol ==
    /\ pc = "text_hf"
    /\ X < Len(A) + MaxNewSymbols - 1
    /\ X' = X + 1
    /\ UNCHANGED <<pc, w, A, T, TP, HFQ, LFQ, G, T_vec, last_freq, rounds,
                   S, i_dec, out, S2, out2, q, q_prev, q_op, ops, cmd, n_file>>

NextG == ThfReplace \/ ThfReplaceAbort \/ ThfNextSymbol

SpecG == InitF /\ [][NextG]_vars

(***************************************************************************)
(* The comparison sort of text_positions_hf (nlogn_sort) and the choice    *)
(* between the two sorts.                                                  *)
(***************************************************************************)
\* operator< of std::pair
PairLess(p, r) == p[1] < r[1] \/ (p[1] = r[1] /\ p[2] < r[2])

\* comparator: i before j iff pair_starting_at(i) < pair_starting_at(j)
comparator(t, i, j) == PairLess(pair_starting_at(t, i), pair_starting_at(t, j))

\* the positions of the set ps in every order std::sort may leave them in:
\* no position comes before one that the comparator puts before it
RECURSIVE nlogn_orders(_, _)
nlogn_orders(t, ps) ==
    IF ps = {} THEN {<<>>}
    ELSE UNION {{<<m>> \o r : r \in nlogn_orders(t, ps \ {m})} :
                   m \in {x \in ps : \A y \in ps : ~comparator(t, y, x)}}

\* TP with TP[i..j) replaced by the sequence s
tp_splice(tp, i, j, s) ==
    [tp EXCEPT !.TP = [k \in 1..Len(tp.TP) |->
                          IF k > i /\ k <= j THEN s[k - i] ELSE tp.TP[k]]]

\* std::sort(TP.begin()+i, TP.begin()+j, comparator(T)): the results
nlogn_sort(tp, t, i, j) ==
    {tp_splice(tp, i, j, s) : s \in nlogn_orders(t, {tp.TP[k] : k \in (i+1)..j})}

\* T->get_max_symbol(): the largest symbol written to the text, x being the
\* next unused symbol
get_max_symbol(x) == x - 1

(***************************************************************************)
(* Specification of sort driven on its own: a text of at most MaxSortText  *)
(* characters, TP filled with all its positions; replace is called on the  *)
(* text and sort(i, j) on any range of TP, in any order. sort is the       *)
(* counting sort of text_positions, or the comparison sort that            *)
(* text_positions_hf falls back to once the largest symbol has reached     *)
(* table_size (on texts of at most MaxCmpText characters).                 *)
(***************************************************************************)
InitS ==
    /\ pc = "sort"
    /\ w \in Strings(MaxSortText)
    /\ Len(w) >= 2
    /\ T = FillText(w, 0, [A |-> <<>>, T |-> new_text(Len(w))]).T
    /\ A = FillText(w, 0, [A |-> <<>>, T |-> new_text(Len(w))]).A
    /\ X = Len(A)
    /\ TP = fill_with_text_positions([TP |-> <<>>, H |-> EmptyH], T)
    /\ HFQ = None
    /\ LFQ = None
    /\ G = <<>>
    /\ T_vec = <<>>
    /\ last_freq = 0
    /\ rounds = 0
    /\ S = <<>>
    /\ i_dec = 0
    /\ out = <<>>
    /\ S2 = <<>>
    /\ out2 = <<>>
    /\ q = None
    /\ q_prev = None
    /\ q_op = None
    /\ ops = 0
    /\ cmd = None
    /\ n_file = 0

\* T.replace(i, X) with a fresh symbol X
SortReplace ==
    /\ pc = "sort"
    /\ \E i \in 0..(text_size(T) - 1) :
         /\ replace_ok(T, i)
         /\ T' = replace(T, i, X)
    /\ X' = X + 1
    /\ UNCHANGED <<pc, w, A, TP, HFQ, LFQ, G, T_vec, last_freq, rounds,
                   S, i_dec, out, S2, out2, q, q_prev, q_op, ops, cmd, n_file>>

\* TP.sort(i, j) of text_positions: the counting sort
SortCounting ==
    /\ pc = "sort"
    /\ \E i \in 0..(tp_size(TP) - 1) : \E j \in (i+1)..tp_size(TP) :
         TP' = cluster(TP, T, i, j)
    /\ UNCHANGED <<pc, w, A, T, X, HFQ, LFQ, G, T_vec, last_freq, rounds,
                   S, i_dec, out, S2, out2, q, q_prev, q_op, ops, cmd, n_file>>

\* text_positions_hf::sort takes the comparison-sort path
Fallback == get_max_symbol(X) >= table_size /\ Len(w) <= MaxCmpText

\* TP.sort(i, j) of text_positions_hf when the largest symbol does not fit
\* the table: the comparison sort
SortComparison ==
    /\ pc = "sort"
    /\ Fallback
    /\ \E i \in 0..(tp_size(TP) - 1) : \E j \in (i+1)..tp_size(TP) :
         TP' \in nlogn_sort(TP, T, i, j)
    /\ UNCHANGED <<pc, w, A, T, X, HFQ, LFQ, G, T_vec, last_freq, rounds,
                   S, i_dec, out, S2, out2, q, q_prev, q_op, ops, cmd, n_file>>

NextS == SortReplace \/ SortCounting \/ SortComparison

SpecS == InitS /\ [][NextS]_vars

(***************************************************************************)
(* The command line: main of rp.cpp and main of repair-decompress.cpp.     *)
(* A file name is a sequence of characters.                                *)
(***************************************************************************)
Chars == {"a", ".", "r", "p"}

RECURSIVE NamesUpTo(_)
NamesUpTo(n) ==
    IF n = 0 THEN {<<>>}
    ELSE NamesUpTo(n-1) \cup
         {Append(u, c) : u \in {v \in NamesUpTo(n-1) : Len(v) = n-1}, c \in Chars}

\* the names given as <input>
FileNames == NamesUpTo(MaxName) \ {<<>>}

\* the names given as [output], and as arguments in excess
OutNames == {<<"o">>}

\* the words given as <c|d>
Modes == {<<"c">>, <<"d">>, <<"x">>}

\* argv[1..] of rp
RpArgs ==
    {<<>>} \cup {<<m>> : m \in Modes}
           \cup {<<m, f>> : m \in Modes, f \in FileNames}
           \cup {<<m, f, o>> : m \in Modes, f \in FileNames, o \in OutNames}
           \cup {<<m, f, o, o>> : m \in Modes, f \in FileNames, o \in OutNames}

\* argv[1..] of repair-decompress
RdArgs ==
    {<<>>} \cup {<<f>> : f \in FileNames}
           \cup {<<f, o>> : f \in FileNames, o \in OutNames}
           \cup {<<f, o, o>> : f \in FileNames, o \in OutNames}

\* the variables main does not touch
NotMain == <<w, A, T, TP, HFQ, LFQ, X, G, T_vec, last_freq, rounds,
             S, i_dec, out, S2, out2, q, q_prev, q_op, ops, n_file>>

\* std::string::npos
npos == -1

rp_suffix == <<".", "r", "p">>

decompressed_suffix ==
    <<".", "d", "e", "c", "o", "m", "p", "r", "e", "s", "s", "e", "d">>

\* s.find_last_of(c)
find_last_of(s, c) ==
    IF \A i \in 1..Len(s) : s[i] # c THEN npos
    ELSE (CHOOSE i \in 1..Len(s) :
              s[i] = c /\ \A j \in (i+1)..Len(s) : s[j] # c) - 1

\* main of rp.cpp: the output name when no output argument is given. In
\* mode d, a name with a dot at index dot is split in name = substr(0, dot)
\* and ext = substr(dot, size - dot)
rp_default_output(mode, in) ==
    IF mode = <<"c">> THEN in \o rp_suffix
    ELSE IF find_last_of(in, ".") # npos
         THEN IF SubSeq(in, find_last_of(in, ".") + 1, Len(in)) = rp_suffix
              THEN SubSeq(in, 1, find_last_of(in, "."))
              ELSE in \o decompressed_suffix
         ELSE in

\* help(): print the usage and exit(0)
help ==
    /\ cmd' = [cmd EXCEPT !.exit = 0]
    /\ pc' = "exit"

\* main of rp.cpp: the arguments and the output name
RpParse ==
    /\ pc = "main"
    /\ cmd.prog = "rp"
    /\ IF Len(cmd.args) + 1 # 3 /\ Len(cmd.args) + 1 # 4 THEN help
       ELSE IF Len(cmd.args) + 1 = 4
            THEN cmd' = [cmd EXCEPT !.out = cmd.args[3]] /\ pc' = "rp_open"
       ELSE IF cmd.args[1] \in {<<"c">>, <<"d">>}
            THEN /\ cmd' = [cmd EXCEPT !.out = rp_default_output(cmd.args[1], cmd.args[2])]
                 /\ pc' = "rp_open"
       ELSE help
    /\ UNCHANGED NotMain

\* main of rp.cpp: if(not ifstream(in).good()) help();
RpOpen ==
    /\ pc = "rp_open"
    /\ IF ~cmd.readable THEN help
       ELSE pc' = "rp_work" /\ UNCHANGED cmd
    /\ UNCHANGED NotMain

\* main of rp.cpp, mode c: compute_repair and compress_and_store; the run
\* either returns from main or stops at a failed assertion of compute_repair
RpCompress ==
    /\ pc = "rp_work"
    /\ cmd.args[1] = <<"c">>
    /\ \E ok \in BOOLEAN :
         cmd' = [cmd EXCEPT !.did = IF ok THEN "compress" ELSE "abort",
                            !.exit = IF ok THEN 0 ELSE 134]
    /\ pc' = "exit"
    /\ UNCHANGED NotMain

\* main of rp.cpp, every other mode: read_and_decompress and decompress
RpDecompress ==
    /\ pc = "rp_work"
    /\ cmd.args[1] # <<"c">>
    /\ cmd' = [cmd EXCEPT !.did = "decompress", !.exit = 0]
    /\ pc' = "exit"
    /\ UNCHANGED NotMain

\* main of repair-decompress.cpp: the arguments and the output name
RdParse ==
    /\ pc = "main"
    /\ cmd.prog = "repair-decompress"
    /\ IF Len(cmd.args) + 1 # 3 /\ Len(cmd.args) + 1 # 2 THEN help
       ELSE IF Len(cmd.args) + 1 = 3
            THEN cmd' = [cmd EXCEPT !.out = cmd.args[2]] /\ pc' = "rd_open"
       ELSE /\ cmd' = [cmd EXCEPT !.out = cmd.args[1] \o decompressed_suffix]
            /\ pc' = "rd_open"
    /\ UNCHANGED NotMain

\* main of repair-decompress.cpp: if(not ifstream(in).good()) help();
RdOpen ==
    /\ pc = "rd_open"
    /\ IF ~cmd.readable THEN help
       ELSE pc' = "rd_work" /\ UNCHANGED cmd
    /\ UNCHANGED NotMain

\* main of repair-decompress.cpp: read_and_decompress_2, decompress, write
RdDecompress ==
    /\ pc = "rd_work"
    /\ cmd' = [cmd EXCEPT !.did = "decompress", !.exit = 0]
    /\ pc' = "exit"
    /\ UNCHANGED NotMain

\* a command line of a program
Command(prog, args, readable) ==
    [prog |-> prog, args |-> args, readable |-> readable,
     out |-> <<>>, did |-> "nothing", exit |-> NULL]

InitM ==
    /\ pc = "main"
    /\ cmd \in {Command("rp", a, r) : a \in RpArgs, r \in BOOLEAN}
          \cup {Command("repair-decompress", a, r) : a \in RdArgs, r \in BOOLEAN}
    /\ w = <<>>
    /\ A = <<>>
    /\ T = None
    /\ TP = None
    /\ HFQ = None
    /\ LFQ = None
    /\ X = 0
    /\ G = <<>>
    /\ T_vec = <<>>
    /\ last_freq = 0
    /\ rounds = 0
    /\ S = <<>>
    /\ i_dec = 0
    /\ out = <<>>
    /\ S2 = <<>>
    /\ out2 = <<>>
    /\ q = None
    /\ q_prev = None
    /\ q_op = None
    /\ ops = 0
    /\ n_file = 0

NextM ==
    \/ RpParse
    \/ RpOpen
    \/ RpCompress
    \/ RpDecompress
    \/ RdParse
    \/ RdOpen
    \/ RdDecompress

SpecM == InitM /\ [][NextM]_vars

(***************************************************************************)
(* The size of the input file: compute_repair up to the filling of the     *)
(* text, with an index type of itype_bits bits                             *)
(***************************************************************************)
\* compute_repair: n = file.tellg(), the position converted to itype
FileSize ==
    /\ pc = "size"
    /\ n_file' = Len(w) % (2 ^ itype_bits)
    /\ pc' = "alloc"
    /\ UNCHANGED <<w, A, T, TP, HFQ, LFQ, X, G, T_vec, last_freq, rounds,
                   S, i_dec, out, S2, out2, q, q_prev, q_op, ops, cmd>>

\* compute_repair: text_t T(n), whose constructor asserts n > 0
Allocate ==
    /\ pc = "alloc"
    /\ IF n_file > 0
       THEN T' = new_text(n_file) /\ pc' = "fill"
       ELSE T' = T /\ pc' = "abort"
    /\ UNCHANGED <<w, A, TP, HFQ, LFQ, X, G, T_vec, last_freq, rounds,
                   S, i_dec, out, S2, out2, q, q_prev, q_op, ops, cmd, n_file>>

\* the bytes of the file that T.set(j++, ...) stores before its assertion
\* i < n fails, or the whole file
Stored(file, n) == IF Len(file) > n THEN SubSeq(file, 1, n) ELSE file

\* compute_repair: while(ifs.get(c)) T.set(j++, char_to_int[c])
Fill ==
    /\ pc = "fill"
    /\ T' = FillText(Stored(w, n_file), 0, [A |-> <<>>, T |-> T]).T
    /\ A' = FillText(Stored(w, n_file), 0, [A |-> <<>>, T |-> T]).A
    /\ pc' = IF Len(w) > n_file THEN "abort" ELSE "filled"
    /\ UNCHANGED <<w, TP, HFQ, LFQ, X, G, T_vec, last_freq, rounds,
                   S, i_dec, out, S2, out2, q, q_prev, q_op, ops, cmd, n_file>>

\* the files: one byte value, every length
Files == {[k \in 1..len |-> 97] : len \in 0..MaxFile}

InitC ==
    /\ pc = "size"
    /\ w \in Files
    /\ n_file = 0
    /\ A = <<>>
    /\ T = None
    /\ TP = None
    /\ HFQ = None
    /\ LFQ = None
    /\ X = 0
    /\ G = <<>>
    /\ T_vec = <<>>
    /\ last_freq = 0
    /\ rounds = 0
    /\ S = <<>>
    /\ i_dec = 0
    /\ out = <<>>
    /\ S2 = <<>>
    /\ out2 = <<>>
    /\ q = None
    /\ q_prev = None
    /\ q_op = None
    /\ ops = 0
    /\ cmd = None

NextC == FileSize \/ Allocate \/ Fill

SpecC == InitC /\ [][NextC]_vars

(***************************************************************************)
(* The linked list ll_vec driven on its own: insert and remove, as in the  *)
(* test of ll_vec                                                          *)
(***************************************************************************)
\* the elements inserted
LlElements == {ll_el(<<0, 0>>, 0, 1, 1), ll_el(<<0, 1>>, 1, 1, 1)}

\* one call on the list: q_op records the call, its argument and its result
LlCall(name, x, i, res) ==
    /\ q_prev' = q
    /\ q_op' = [op |-> name, x |-> x, i |-> i, res |-> res]
    /\ ops' = ops + 1
    /\ pc' = IF q'.bad THEN "abort" ELSE pc
    /\ UNCHANGED <<w, A, T, TP, HFQ, LFQ, X, G, T_vec, last_freq, rounds,
                   S, i_dec, out, S2, out2, cmd, n_file>>

\* ll.insert(x)
LlInsert ==
    /\ pc = "llvec" /\ ops < MaxLlOps
    /\ \E x \in LlElements :
         /\ q' = ll_insert(q, x)
         /\ LlCall("ll_insert", x, NULL, ll_insert_pos(q))

\* ll.remove(i), i a position that holds an element
LlRemove ==
    /\ pc = "llvec" /\ ops < MaxLlOps
    /\ \E i \in 0..(ll_capacity(q) - 1) :
         /\ ~is_null(ll_at(q, i))
         /\ q' = ll_remove(q, i)
         /\ LlCall("ll_remove", null_el, i, NULL)

InitL ==
    /\ pc = "llvec"
    /\ q = new_ll_vec
    /\ q_prev = new_ll_vec
    /\ q_op = [op |-> "new", x |-> null_el, i |-> NULL, res |-> NULL]
    /\ ops = 0
    /\ cmd = None
    /\ n_file = 0
    /\ w = <<>>
    /\ A = <<>>
    /\ T = None
    /\ TP = None
    /\ HFQ = None
    /\ LFQ = None
    /\ X = 0
    /\ G = <<>>
    /\ T_vec = <<>>
    /\ last_freq = 0
    /\ rounds = 0
    /\ S = <<>>
    /\ i_dec = 0
    /\ out = <<>>
    /\ S2 = <<>>
    /\ out2 = <<>>

NextL == LlInsert \/ LlRemove

SpecL == InitL /\ [][NextL]_vars

\* e = ll.pop()
LlPop ==
    /\ pc = "llvec" /\ ops < MaxLlOps
    /\ q' = ll_pop(q)
    /\ LlCall("ll_pop", ll_pop_el(q), q.first_el, NULL)

\* the list with insert, remove and pop, as in the test of ll_vec
NextP == LlInsert \/ LlRemove \/ LlPop

SpecP == InitL /\ [][NextP]_vars

(***************************************************************************)
(* Properties of the compressor                                            *)
(***************************************************************************)
\* compute_repair has returned
Compressed == pc \in {"dec", "dec2", "dec2_pop", "done"}

\* compute_repair is between two substitution rounds
BetweenRounds == pc \in {"hf", "lf"}

\* the queue of the current phase
ActiveQueue == IF pc = "hf" THEN HFQ ELSE LFQ

\* a substitution round is about to select the pair max() of the active queue
AtSelection ==
    /\ BetweenRounds
    /\ ~QAfterMax(ActiveQueue).bad
    /\ QMax(ActiveQueue) # nullpair

\* number of positions of the sequence u at which the pair ab of adjacent
\* symbols starts
Occurrences(u, ab) == Cardinality({k \in 1..(Len(u) - 1) : <<u[k], u[k+1]>> = ab})

\* the pairs of adjacent symbols of u
PairsOf(u) == {<<u[k], u[k+1]>> : k \in 1..(Len(u) - 1)}

\* the string generated by symbol x of the grammar (a, g)
RECURSIVE Expansion(_, _, _)
Expansion(a, g, x) ==
    IF x < Len(a) THEN <<a[x+1]>>
    ELSE Expansion(a, g, g[(x - Len(a)) + 1][1]) \o Expansion(a, g, g[(x - Len(a)) + 1][2])

\* the string generated by the sequence u of symbols
RECURSIVE ExpansionOf(_, _, _)
ExpansionOf(a, g, u) ==
    IF u = <<>> THEN <<>>
    ELSE Expansion(a, g, Head(u)) \o ExpansionOf(a, g, Tail(u))

\* C1 (as the specification states it): for every non-empty input w, repair
\* returns a triple (A, G, T_c) and the stack-based expansion of that triple
\* is exactly w.
C1_RoundTrip ==
    w # <<>> =>
        /\ pc # "abort"
        /\ pc = "done" => out2 = w /\ out = w

\* C2 (as the specification states it): when repair has terminated, no pair
\* of symbols occurs more than once as a pair of adjacent symbols of T_c.
C2_Terminality ==
    Compressed => \A ab \in PairsOf(T_vec) : Occurrences(T_vec, ab) = 1

\* C3 (as the specification states it): when a substitution round selects
\* the pair AB = max() of its queue, no pair of adjacent live symbols occurs
\* more often in the current text than AB does.
C3_SelectsMostFrequent ==
    AtSelection =>
        \A ab \in PairsOf(LiveText(T, 0)) :
            Occurrences(LiveText(T, 0), ab) <= Occurrences(LiveText(T, 0), QMax(ActiveQueue))

\* the symbols of the sequence u
SymbolsOf(u) == {u[k] : k \in 1..Len(u)}

\* the text as compute_repair would output it now
CurrentText == IF Compressed THEN T_vec ELSE LiveText(T, 0)

\* C4: between two substitution rounds and when repair has returned, the
\* non-terminals minted so far are sigma, ..., sigma+|G|-1, each defined by
\* the one production G[k], a pair of symbols, and each occurs in the text
\* or in the right-hand side of a later production (no dead rules).
C4_GrammarShape ==
    (BetweenRounds \/ Compressed) =>
        /\ X = Len(A) + Len(G)
        /\ \A k \in 1..Len(G) :
              /\ Len(G[k]) = 2
              /\ \/ Len(A) + (k-1) \in SymbolsOf(CurrentText)
                 \/ \E l \in (k+1)..Len(G) : Len(A) + (k-1) \in SymbolsOf(G[l])

\* C4's case: repair has returned a grammar with a non-terminal that occurs
\* only in a later production
C4_Witness ==
    /\ pc = "done"
    /\ Len(G) >= 2
    /\ \E k \in 1..Len(G) : Len(A) + (k-1) \notin SymbolsOf(T_vec)

\* C5: within a phase, the frequency F_AB of the pair selected by a
\* substitution round is at most the frequency the pair selected by the
\* previous round of that phase had at its selection.
C5_FrequencyMonotone ==
    [][(BetweenRounds /\ rounds >= 1 /\ rounds' = rounds + 1) => last_freq' <= last_freq]_vars

\* C5's case: a round of a phase is about to select a pair of smaller
\* frequency than the pair selected by the previous round of the phase
C5_Witness ==
    /\ BetweenRounds
    /\ rounds >= 1
    /\ AtSelection
    /\ QAt(ActiveQueue, QMax(ActiveQueue)).F_ab < last_freq

\* position of the first occurrence of byte c in u (Len(u)+1 if none)
RECURSIVE FirstOccurrence(_, _, _)
FirstOccurrence(u, c, k) ==
    IF k > Len(u) THEN k
    ELSE IF u[k] = c THEN k ELSE FirstOccurrence(u, c, k+1)

\* the text is the one compute_repair has just filled: no round has run
InitialText == pc \in {"hf", "abort"} /\ G = <<>> /\ T # None

\* C6: the alphabet A lists every distinct byte of w once, in the order of
\* the first occurrences in w, and the initial text holds at every position
\* j the index in A of byte w[j].
C6_Alphabet ==
    pc # "start" =>
        /\ SymbolsOf(A) = SymbolsOf(w)
        /\ \A k, l \in 1..Len(A) :
              k < l => FirstOccurrence(w, A[k], 1) < FirstOccurrence(w, A[l], 1)
        /\ InitialText =>
              /\ text_size(T) = Len(w)
              /\ \A j \in 1..Len(w) : ~is_blank(T, j-1) /\ A[text_at(T, j-1) + 1] = w[j]

\* C6's case: an input with two distinct bytes, the larger byte first, has
\* been read
C6_Witness ==
    /\ InitialText
    /\ Len(A) = 2
    /\ A[1] > A[2]
    /\ Len(w) >= 3

(***************************************************************************)
(* Properties of the low-frequency queue                                   *)
(***************************************************************************)
\* the frequency under which the queue holds pair ab
FrequencyOf(Q, ab) == Q.H[ab][1]

\* the record <P_ab, L_ab, F_ab> the queue returns for each contained pair
RecordsOf(Q) == [ab \in DOMAIN Q.H |-> IF lf_at_ok(Q, ab) THEN lf_at(Q, ab) ELSE None]

\* C9 (as the specification states it): after any sequence of insert,
\* decrease, remove and update, max() returns a contained pair whose
\* frequency is the highest of all contained pairs, and the null pair exactly
\* when the queue is empty.
C9_MaxIsHighest ==
    q_op.op = "max" =>
        /\ ~q.bad
        /\ q_op.res = nullpair <=> DOMAIN q.H = {}
        /\ q_op.res # nullpair =>
              /\ q_op.res \in DOMAIN q.H
              /\ \A ab \in DOMAIN q.H : FrequencyOf(q, ab) <= FrequencyOf(q, q_op.res)

\* C10 (as the specification states it): decrease(ab) on a contained pair of
\* frequency f moves the record of ab to the list F[f-1] with P_ab and L_ab
\* unchanged when f-1 >= 2, removes ab (size() one less) when f-1 < 2, and
\* changes the record of no other pair.
C10_Decrease ==
    (q_op.op = "decrease" /\ lf_at_ok(q_prev, q_op.ab)) =>
        LET ab == q_op.ab
            old == lf_at(q_prev, ab)
        IN /\ ~q.bad
           /\ \A cd \in DOMAIN q_prev.H \ {ab} :
                 cd \in DOMAIN q.H /\ RecordsOf(q)[cd] = RecordsOf(q_prev)[cd]
           /\ DOMAIN q.H \subseteq DOMAIN q_prev.H
           /\ IF old.F_ab - 1 >= 2
              THEN /\ ab \in DOMAIN q.H
                   /\ FrequencyOf(q, ab) = old.F_ab - 1
                   /\ RecordsOf(q)[ab] = triple(old.P_ab, old.L_ab, old.F_ab - 1)
                   /\ lf_size(q) = lf_size(q_prev)
              ELSE /\ ab \notin DOMAIN q.H
                   /\ lf_size(q) = lf_size(q_prev) - 1

(***************************************************************************)
(* Tie-breaks of max()                                                     *)
(***************************************************************************)
\* the pairs of the high-frequency queue: positions of pairs_in_hash whose
\* pair is contained
HfLive(Q) == {k \in 1..Len(Q.pairs_in_hash) : hf_contains(Q, Q.pairs_in_hash[k])}

\* those of the largest frequency
HfLargest(Q) ==
    {k \in HfLive(Q) :
        \A l \in HfLive(Q) : Q.H[Q.pairs_in_hash[l]].F_ab <= Q.H[Q.pairs_in_hash[k]].F_ab}

\* the first inserted pair among those of the largest frequency
HfFirstInserted(Q) ==
    Q.pairs_in_hash[CHOOSE k \in HfLargest(Q) : \A l \in HfLargest(Q) : k <= l]

\* the highest non-empty list of the low-frequency queue at or below MAX
LfHighestList(Q) ==
    CHOOSE c \in 2..Q.MAX :
        /\ ll_size(lf_list(Q, c)) > 0
        /\ \A d \in (c+1)..Q.MAX : ll_size(lf_list(Q, d)) = 0

\* the pair stored at the first element of that list
LfFirstOfList(Q) ==
    LET l == lf_list(Q, LfHighestList(Q)) IN l.V[l.first_el + 1].ab

MaxRules == 2
MaxSize == 4

\* alphabets of the compressed files
Alphabets == {<<97>>, <<98, 97>>}

\* grammars of m rules over sigma characters in which a rule uses only
\* symbols smaller than its own non-terminal
Grammars(sigma, m) ==
    {g \in [1..m -> (0..(sigma + m - 2)) \X (0..(sigma + m - 2))] :
        \A k \in 1..m : g[k][1] < sigma + k - 1 /\ g[k][2] < sigma + k - 1}

\* compressed texts of m symbols over x symbols
Texts(x, m) == [1..m -> 0..(x - 1)]

InitD ==
    /\ pc = "dec"
    /\ w = <<>>
    /\ A \in Alphabets
    /\ \E m \in 0..MaxRules : G \in Grammars(Len(A), m)
    /\ \E m \in 0..(MaxSize - Len(G)) : T_vec \in Texts(Len(A) + Len(G), m)
    /\ T = None
    /\ TP = None
    /\ HFQ = None
    /\ LFQ = None
    /\ X = Len(A) + Len(G)
    /\ last_freq = 0
    /\ rounds = 0
    /\ S = <<>>
    /\ i_dec = 0
    /\ out = <<>>
    /\ S2 = <<>>
    /\ out2 = <<>>
    /\ q = None
    /\ q_prev = None
    /\ q_op = None
    /\ ops = 0
    /\ cmd = None
    /\ n_file = 0

NextD ==
    \/ DecompressPush
    \/ DecompressPop
    \/ DecompressDone
    \/ Decompress2Push
    \/ Decompress2Pop
    \/ Decompress2Done

SpecD == InitD /\ [][NextD]_vars

\* the decompressors are sequential programs: a step that can be taken is taken
SpecDFair == SpecD /\ WF_vars(NextD)

\* C8: on a grammar whose rules use only smaller symbols both decompressors
\* terminate, the output is the concatenation of the expansions of the
\* symbols of T_c in order, and the two outputs are equal.
C8_Decompress ==
    <>[](/\ pc = "done"
         /\ out = ExpansionOf(A, G, T_vec)
         /\ out2 = out)

\* a terminated decompression of a text with a non-terminal whose rule uses
\* another non-terminal and two different characters
C8_Witness ==
    /\ pc = "done"
    /\ Len(G) = 2
    /\ \E k \in 1..Len(T_vec) : T_vec[k] = Len(A) + 1
    /\ \E j \in 1..2 : G[2][j] = Len(A)
    /\ G[1][1] # G[1][2]
    /\ out2 = ExpansionOf(A, G, T_vec)
    /\ Len(out2) >= 3

(***************************************************************************)
(* Properties of the high-frequency queue                                  *)
(***************************************************************************)
\* C11 (as the specification states it): after any sequence of insert,
\* update, decrease and remove on the high-frequency queue, max() returns a
\* contained pair whose F_ab is at least the F_ab of every contained pair,
\* and the null pair exactly when the queue is empty.
C11_HfMaxIsLargest ==
    (q_op.op = "max" /\ q_prev.kind = "hf") =>
        /\ ~q.bad
        /\ q_op.res = nullpair <=> hf_size(q) = 0
        /\ q_op.res # nullpair =>
              /\ hf_contains(q, q_op.res)
              /\ \A ab \in DOMAIN q.H : hf_at(q, ab).F_ab <= hf_at(q, q_op.res).F_ab

LiveAfter(t, i) == {j \in (i+1)..(text_size(t) - 1) : ~is_blank(t, j)}

\* the first of them
NextLive(t, i) == CHOOSE j \in LiveAfter(t, i) : \A k \in LiveAfter(t, i) : j <= k

\* C13: after any sequence of replace calls, pair_starting_at(i) is the pair
\* (symbol at i, symbol at the next non-blank position after i) when i is
\* not blank and a non-blank position follows it, and the null pair when i
\* is blank or is the last non-blank position.
C13_PairStartingAt ==
    pc = "text" =>
        \A i \in 0..(text_size(T) - 1) :
            pair_starting_at(T, i) =
                IF is_blank(T, i) \/ LiveAfter(T, i) = {} THEN nullpair
                ELSE <<T.T[i+1], T.T[NextLive(T, i) + 1]>>

\* after replacements, a pair that spans a run of at least two blanks, in a
\* text that also ends with a run of blanks
C13_Witness ==
    /\ pc = "text"
    /\ is_blank(T, text_size(T) - 1)
    /\ \E i \in 0..(text_size(T) - 1) :
         /\ ~is_blank(T, i)
         /\ LiveAfter(T, i) # {}
         /\ NextLive(T, i) >= i + 3
         /\ pair_starting_at(T, i) = <<T.T[i+1], T.T[NextLive(T, i) + 1]>>

(***************************************************************************)
(* The worked examples of the compression                                  *)
(***************************************************************************)
ababab == <<97, 98, 97, 98, 97, 98>>

aaaa == <<97, 97, 97, 97>>

\* C14 (as the specification states it): for w = "ababab" repair returns
\* A = [0x61, 0x62], exactly the two productions 2 -> (0,1) and 3 -> (2,2)
\* in that order, and T_c = [3, 2].
C14_Ababab ==
    (Compressed /\ w = ababab) =>
        /\ A = <<97, 98>>
        /\ G = << <<0, 1>>, <<2, 2>> >>
        /\ T_vec = <<3, 2>>

\* C15 (as the specification states it): for w = "aaaa" repair returns
\* A = [0x61] and two productions, the first with right-hand side (0,0) and
\* the second with right-hand side (2,2), and T_c = [3].
C15_AaaaTwoProductions ==
    (Compressed /\ w = aaaa) =>
        /\ A = <<97>>
        /\ G = << <<0, 0>>, <<2, 2>> >>
        /\ T_vec = <<3>>

\* C15 (amended): for w = "aaaa" repair returns A = [0x61] and exactly one
\* production, 1 -> (0,0), the first non-terminal being sigma = 1; the text
\* it leaves, [1, 1], holds the pair (1,1) once only, so that no further
\* production is made and T_c = [1, 1].
C15_Aaaa ==
    (Compressed /\ w = aaaa) =>
        /\ A = <<97>>
        /\ G = << <<0, 0>> >>
        /\ T_vec = <<1, 1>>
        /\ X = 2

\* repair has returned on "aaaa" after a substitution
C15_Witness ==
    /\ pc = "done"
    /\ w = aaaa
    /\ Len(G) >= 1
    /\ out2 = w

\* C16 (as the specification states it): repair completes normally on
\* inputs shorter than two bytes: for w = "" it returns A = [], G = [],
\* T_c = [], and for w = "a" it returns A = [0x61], G = [], T_c = [0].
C16_ShortInputs ==
    Len(w) < 2 =>
        /\ pc # "abort"
        /\ Compressed =>
              /\ A = w
              /\ G = <<>>
              /\ T_vec = [k \in 1..Len(w) |-> 0]

(***************************************************************************)
(* Properties of the command line                                          *)
(***************************************************************************)
\* the name ends in .rp
EndsInRp(name) ==
    /\ Len(name) >= Len(rp_suffix)
    /\ SubSeq(name, Len(name) - Len(rp_suffix) + 1, Len(name)) = rp_suffix

\* C17 (as the specification states it): when rp is given no output
\* argument, mode c writes to <input>.rp, mode d writes to <input> without
\* its trailing .rp when <input> ends in .rp and to <input>.decompressed for
\* every other input name; the default output name is never the input name.
C17_DefaultOutputName ==
    (pc = "rp_open" /\ cmd.prog = "rp" /\ Len(cmd.args) = 2) =>
        /\ cmd.args[1] = <<"c">> => cmd.out = cmd.args[2] \o rp_suffix
        /\ cmd.args[1] = <<"d">> =>
              cmd.out = IF EndsInRp(cmd.args[2])
                        THEN SubSeq(cmd.args[2], 1, Len(cmd.args[2]) - Len(rp_suffix))
                        ELSE cmd.args[2] \o decompressed_suffix
        /\ cmd.out # cmd.args[2]

\* the command line is one the program has to refuse: a wrong number of
\* arguments, an unrecognised mode, or an input file that cannot be opened
Refused(c) ==
    IF c.prog = "rp"
    THEN \/ Len(c.args) + 1 \notin {3, 4}
         \/ c.args[1] \notin {<<"c">>, <<"d">>}
         \/ ~c.readable
    ELSE \/ Len(c.args) + 1 \notin {2, 3}
         \/ ~c.readable

\* C18 (as the specification states it): the program exits with code 0 only
\* after a completed compression or decompression; a wrong number of
\* arguments, an unrecognised mode or an input file that cannot be opened
\* makes it exit with a non-zero code without compressing or decompressing
\* anything.
C18_ExitCode ==
    pc = "exit" =>
        /\ cmd.exit = 0 => cmd.did \in {"compress", "decompress"}
        /\ Refused(cmd) => (cmd.exit # 0 /\ cmd.did = "nothing")

(***************************************************************************)
(* Properties of the size of the input                                     *)
(***************************************************************************)
\* C19 (as the specification states it): an input whose length does not fit
\* the index type is reported as a capacity error before the text or the
\* array of positions is allocated, and the engine never runs with a length
\* different from the length of the input.
C19_CapacityChecked ==
    /\ (Len(w) >= 2 ^ itype_bits /\ pc # "size") => pc = "capacity"
    /\ pc \in {"fill", "filled"} => text_size(T) = Len(w)

(***************************************************************************)
(* Properties of the linked list                                           *)
(***************************************************************************)
\* C20 (as the specification states it): insert(x) returns an index i such
\* that list[i] = x afterwards, and it leaves every element stored before
\* the call at its index, also when the insert grows the allocated space.
C20_InsertKeepsPositions ==
    q_op.op = "ll_insert" =>
        /\ ~q.bad
        /\ q_op.res < ll_capacity(q)
        /\ ll_at(q, q_op.res) = q_op.x
        /\ \A i \in 0..(ll_capacity(q_prev) - 1) :
              ~is_null(ll_at(q_prev, i)) => ll_at(q, i) = ll_at(q_prev, i)

\* C21 (as the specification states it): pop() on a non-empty list removes
\* and returns the element at the head of the list, decreases size() by one
\* and leaves the popped slot holding no object, so that operator[] returns
\* a null element there; pop() on an empty list returns a null element.
C21_Pop ==
    q_op.op = "ll_pop" =>
        /\ ~q.bad
        /\ ll_size(q_prev) = 0 => (is_null(q_op.x) /\ q = q_prev)
        /\ ll_size(q_prev) > 0 =>
              /\ q_op.x = ll_at(q_prev, q_prev.first_el)
              /\ ~is_null(q_op.x)
              /\ ll_size(q) = ll_size(q_prev) - 1
              /\ is_null(ll_at(q, q_op.i))

\* the slots reached by following next from slot cur, at most fuel of them
RECURSIVE ChainOf(_, _, _)
ChainOf(next, cur, fuel) ==
    IF cur = NULL \/ fuel = 0 THEN <<>>
    ELSE <<cur>> \o ChainOf(next, next[cur + 1], fuel - 1)

\* the sequence c visits exactly the slots of the set ss, each once
VisitsOnce(c, ss) ==
    /\ Len(c) = Cardinality(ss)
    /\ {c[k] : k \in 1..Len(c)} = ss

\* C25 (as the specification states it): after any sequence of insert(x) and
\* remove(i) calls, each remove on a slot that holds an element, following
\* next_el from the head visits exactly the size() slots that hold elements,
\* each once, and following the free list from first_empty visits exactly
\* the capacity()-size() empty slots.
C25_ListIntegrity ==
    pc = "llvec" =>
        /\ Cardinality({i \in 0..(ll_capacity(q) - 1) : ~is_null(ll_at(q, i))}) = ll_size(q)
        /\ VisitsOnce(ChainOf(q.next_el, q.first_el, ll_capacity(q) + 1),
                      {i \in 0..(ll_capacity(q) - 1) : ~is_null(ll_at(q, i))})
        /\ VisitsOnce(ChainOf(q.next_el, q.first_empty, ll_capacity(q) + 1),
                      {i \in 0..(ll_capacity(q) - 1) : is_null(ll_at(q, i))})

(***************************************************************************)
(* Properties of the phases and of the records of the queues               *)
(***************************************************************************)
\* the loop of the high-frequency phase has ended: max() is the null pair
HighPhaseEnded ==
    /\ pc = "hf"
    /\ ~QAfterMax(HFQ).bad
    /\ QMax(HFQ) = nullpair

\* C22: when the high-frequency queue becomes empty, every pair of adjacent
\* live symbols starts at fewer than tau positions of the text, and every
\* pair the low-frequency queue is seeded with has a frequency below tau.
C22_HighPhaseTermination ==
    /\ HighPhaseEnded =>
          \A ab \in PairsOf(LiveText(T, 0)) :
              Occurrences(LiveText(T, 0), ab) < min_high_frequency(Len(w))
    /\ (pc = "lf" /\ rounds = 0) =>
          \A ab \in DOMAIN LFQ.H : FrequencyOf(LFQ, ab) < min_high_frequency(Len(w))

\* the high-frequency phase has made a substitution and has ended with a
\* text in which a pair still occurs twice
C22_Witness ==
    /\ HighPhaseEnded
    /\ Len(G) >= 1
    /\ \E ab \in PairsOf(LiveText(T, 0)) : Occurrences(LiveText(T, 0), ab) >= 2

\* the text positions at which pair ab starts now
StartsOf(t, ab) == {i \in 0..(text_size(t) - 1) : pair_starting_at(t, i) = ab}

\* the entries TP[P .. P+L)
RangeOf(tp, P, L) == {tp_at(tp, j) : j \in P..(P + L - 1)}

\* a substitution round is about to start on a queue that is intact
RoundStart == BetweenRounds /\ ~ActiveQueue.bad

\* position i of the input reads the string u
ReadsAt(file, i, u) ==
    /\ i + Len(u) <= Len(file)
    /\ SubSeq(file, i + 1, i + Len(u)) = u

C24_ExactFrequency ==
    RoundStart =>
        \A ab \in DOMAIN ActiveQueue.H :
            /\ QAtOk(ActiveQueue, ab)
            /\ QAt(ActiveQueue, ab).F_ab = Cardinality(StartsOf(T, ab))
            /\ QAt(ActiveQueue, ab).F_ab <= QAt(ActiveQueue, ab).L_ab

\* a round starts with a queued pair that has lost occurrences since its
\* range was clustered and still has some
C24_Witness ==
    /\ RoundStart
    /\ rounds >= 1
    /\ \E ab \in DOMAIN ActiveQueue.H :
          /\ QAtOk(ActiveQueue, ab)
          /\ QAt(ActiveQueue, ab).F_ab >= 1
          /\ QAt(ActiveQueue, ab).F_ab < QAt(ActiveQueue, ab).L_ab
          /\ QAt(ActiveQueue, ab).F_ab = Cardinality(StartsOf(T, ab))

(***************************************************************************)
(* Properties of replace                                                   *)
(***************************************************************************)
\* the text u is text t after replace(i, x) on the live position i with live
\* successor j, as the claim states it
Replaced(t, u, i, j, x) ==
    /\ ~is_blank(u, i) /\ text_at(u, i) = x
    /\ is_blank(u, j)
    /\ \A k \in 0..(text_size(t) - 1) \ {i, j} :
          /\ is_blank(u, k) = is_blank(t, k)
          /\ ~is_blank(t, k) => text_at(u, k) = text_at(t, k)
    /\ text_size(u) = text_size(t)
    /\ number_of_non_blank_characters(u) = number_of_non_blank_characters(t) - 1

\* C26: replace(i, X) on a live position i with live successor j makes
\* position i hold X, blanks position j, leaves the liveness and the symbol
\* of every other live position unchanged, and decreases the count of live
\* positions by exactly one.
C26_ReplaceFrame ==
    [][pc = "text" =>
          \E i \in 0..(text_size(T) - 1) :
              /\ ~is_blank(T, i)
              /\ LiveAfter(T, i) # {}
              /\ Replaced(T, T', i, NextLive(T, i), X)]_vars

\* a text after replacements, two of them on the same position, whose count
\* of live positions is the number of its non-blank positions
C26_Witness ==
    /\ pc = "text"
    /\ X >= Len(A) + 2
    /\ \E i \in 0..(text_size(T) - 3) :
          ~is_blank(T, i) /\ is_blank(T, i + 1) /\ is_blank(T, i + 2)
    /\ number_of_non_blank_characters(T) =
           Cardinality({k \in 0..(text_size(T) - 1) : ~is_blank(T, k)})

\* Replaced, for skippable_text_hf
ThfReplaced(t, u, i, j, x) ==
    /\ ~thf_is_blank(u, i) /\ thf_at(u, i) = x
    /\ thf_is_blank(u, j)
    /\ \A k \in 0..(thf_size(t) - 1) \ {i, j} :
          /\ thf_is_blank(u, k) = thf_is_blank(t, k)
          /\ ~thf_is_blank(t, k) => thf_at(u, k) = thf_at(t, k)
    /\ thf_size(u) = thf_size(t)
    /\ thf_number_of_non_blank_characters(u) =
           thf_number_of_non_blank_characters(t) - 1

\* C26, for skippable_text_hf::replace: every call of replace(i, X) on a
\* live position i with live successor j makes position i hold X, blanks
\* position j, leaves the liveness and the symbol of every other live
\* position unchanged, and decreases the count of live positions by one.
C26_ReplaceFrameHf ==
    [][pc = "text_hf" =>
          \E i \in 0..(thf_size(T) - 1) :
              /\ ~thf_is_blank(T, i)
              /\ next_non_blank_position_trivial(T, i) # NULL
              /\ ThfReplaced(T, T', i, next_non_blank_position_trivial(T, i), X)]_vars

\* replace of skippable_text_hf stops only in a text of one word
ThfAbortOneWord == pc = "abort" => Len(w) <= word_bits

(***************************************************************************)
(* Properties of next_non_blank_position and prev_non_blank_position       *)
(***************************************************************************)
\* the live positions before position i
ThfLiveBefore(t, i) == {j \in 0..(i-1) : ~thf_is_blank(t, j)}

\* linear scan to the left of position i
ThfPrevLive(t, i) ==
    IF ThfLiveBefore(t, i) = {} THEN NULL
    ELSE CHOOSE j \in ThfLiveBefore(t, i) : \A k \in ThfLiveBefore(t, i) : k <= j

\* C27: after any sequence of replace calls, next_non_blank_position(i) and
\* prev_non_blank_position(i) on a live position i return the nearest live
\* position after, respectively before, i, and null when there is none: the
\* result of a linear scan, whatever the length of the blank run.
C27_SkipMatchesScan ==
    pc = "text_hf" =>
        \A i \in 0..(thf_size(T) - 1) :
            ~thf_is_blank(T, i) =>
                /\ next_non_blank_position(T, i) = next_non_blank_position_trivial(T, i)
                /\ prev_non_blank_position(T, i) = ThfPrevLive(T, i)

\* a blank run between two live positions covers two whole words or more
C27_Witness ==
    /\ pc = "text_hf"
    /\ \E i \in 0..(thf_size(T) - 1) :
          /\ ~thf_is_blank(T, i)
          /\ next_non_blank_position_trivial(T, i) # NULL
          /\ next_non_blank_position_trivial(T, i) \div word_bits >= (i \div word_bits) + 3

\* a blank run that covers two whole words or more reaches the end of the text
ThfRunToEnd ==
    /\ pc = "text_hf"
    /\ \E i \in 0..(thf_size(T) - 1) :
          /\ ~thf_is_blank(T, i)
          /\ next_non_blank_position_trivial(T, i) = NULL
          /\ (i \div word_bits) + 3 <= Len(T.non_blank)

\* every call of replace of skippable_text_hf that returns has the effect of
\* ThfReplaced
ThfReplaceFrameWhenReturns ==
    [][pc' = "text_hf" =>
          \E i \in 0..(thf_size(T) - 1) :
              /\ ~thf_is_blank(T, i)
              /\ next_non_blank_position_trivial(T, i) # NULL
              /\ ThfReplaced(T, T', i, next_non_blank_position_trivial(T, i), X)]_vars
(***************************************************************************)
(* Properties of sort                                                      *)
(***************************************************************************)
\* number of entries of TP[i..j) equal to x
TpCount(tp, i, j, x) == Cardinality({k \in i..(j-1) : tp_at(tp, k) = x})

\* the pairs that start at the entries of TP[i..j)
RangePairs(tp, t, i, j) == [k \in i..(j-1) |-> pair_starting_at(t, tp_at(tp, k))]

\* ps are the pairs of the entries of a range: the entries of one non-null
\* pair are contiguous and the entries of the null pair come after all others
ClusteredPairs(ps) ==
    \A k \in DOMAIN ps : \A m \in DOMAIN ps :
        k < m =>
            /\ ps[k] = nullpair => ps[m] = nullpair
            /\ ps[k] = ps[m] => \A l \in k..m : ps[l] = ps[k]

ClusteredRange(tp, t, i, j) == ClusteredPairs(RangePairs(tp, t, i, j))

\* tp1 is tp0 after sort(i, j) on the text t, as the claim states it
SortedRange(tp0, tp1, t, i, j) ==
    /\ tp_size(tp1) = tp_size(tp0)
    /\ ClusteredRange(tp1, t, i, j)
    /\ \A k \in i..(j-1) :
          /\ TpCount(tp1, i, j, tp_at(tp0, k)) = TpCount(tp0, i, j, tp_at(tp0, k))
          /\ TpCount(tp1, i, j, tp_at(tp1, k)) = TpCount(tp0, i, j, tp_at(tp1, k))
    /\ \A k \in 0..(tp_size(tp0) - 1) : (k < i \/ k >= j) => tp_at(tp1, k) = tp_at(tp0, k)

MixedRange(tp, t, i, j) ==
    /\ \E k \in i..(j-1) : is_blank(t, tp_at(tp, k))
    /\ \E k \in i..(j-1) : \E m \in (k+1)..(j-1) :
          /\ pair_starting_at(t, tp_at(tp, k)) # nullpair
          /\ pair_starting_at(t, tp_at(tp, k)) = pair_starting_at(t, tp_at(tp, m))

SortComparisonActed ==
    /\ pc = "sort"
    /\ Fallback
    /\ \E k \in 0..(tp_size(TP) - 1) : tp_at(TP, k) # k
    /\ \E i \in 0..(tp_size(TP) - 1) : \E j \in (i+1)..tp_size(TP) :
          /\ \E k \in i..(j-1) : is_blank(T, tp_at(TP, k))
          /\ TP \notin nlogn_sort(TP, T, i, j)

\* the step is the call synchronize(AB) that ends a round, and it returned
LastSynchronizeReturned ==
    /\ InSecondLoop
    /\ pc' # "abort"
    /\ q_op.j >= q_op.P_AB + q_op.L_AB

\* the step is a call of synchro_or_remove_pair that returned
SynchroOrRemoveReturned ==
    /\ InSecondLoop
    /\ pc' # "abort"
    /\ q_op.j < q_op.P_AB + q_op.L_AB
    /\ q_op'.call # nullpair

\* the record of the pair of that call, before the call
CalledEl == q_op'.q_el

\* the entry of the queue for XY is (p, k, k)
QueuedAs(Q, XY, p, k) ==
    /\ QContains(Q, XY)
    /\ QAtOk(Q, XY)
    /\ QAt(Q, XY).P_ab = p
    /\ QAt(Q, XY).L_ab = k
    /\ QAt(Q, XY).F_ab = k

\* a run of the pair at TP[j] starts at index j of TP[p..end-1]
RunStart(tp, t, p, j) ==
    j = p \/ pair_starting_at(t, tp_at(tp, j-1)) # pair_starting_at(t, tp_at(tp, j))

\* every run of a pair other than ab, of length at least the minimum
\* frequency, has its entry in the queue
OtherRunsQueued(Q1, min_freq, tp, t, ab, p, end) ==
    \A j \in p..(end-1) :
        (/\ RunStart(tp, t, p, j)
         /\ pair_starting_at(t, tp_at(tp, j)) \notin {ab, nullpair}
         /\ RunLength(t, tp, j, end, pair_starting_at(t, tp_at(tp, j))) >= min_freq)
        => QueuedAs(Q1, pair_starting_at(t, tp_at(tp, j)), j,
                    RunLength(t, tp, j, end, pair_starting_at(t, tp_at(tp, j))))

\* ab is in the queue only with the record of its own run
OwnRunQueued(Q1, min_freq, tp, t, ab, p, end) ==
    QContains(Q1, ab) =>
        \E j \in p..(end-1) :
            /\ RunStart(tp, t, p, j)
            /\ pair_starting_at(t, tp_at(tp, j)) = ab
            /\ RunLength(t, tp, j, end, ab) >= min_freq
            /\ QueuedAs(Q1, ab, j, RunLength(t, tp, j, end, ab))
            /\ \A m \in QAt(Q1, ab).P_ab..(QAt(Q1, ab).P_ab + QAt(Q1, ab).L_ab - 1) :
                  pair_starting_at(t, tp_at(tp, m)) = ab

SynchronizedRange(Q1, min_freq, tp, t, ab, q_el) ==
    /\ OtherRunsQueued(Q1, min_freq, tp, t, ab, q_el.P_ab, q_el.P_ab + q_el.L_ab)
    /\ OwnRunQueued(Q1, min_freq, tp, t, ab, q_el.P_ab, q_el.P_ab + q_el.L_ab)

\* C29: after synchronize(ab) on a queued pair ab, every other pair that forms
\* an equal-pair run of length k >= the queue's minimum frequency inside ab's
\* old range TP[P_ab .. P_ab+L_ab) is in the queue with the record
\* (run start, k, k); ab is still in the queue only if its own run has length
\* >= the minimum frequency, and then F_ab = L_ab = that run length and
\* TP[P_ab .. P_ab+L_ab) holds only positions that start ab.
C29_Synchronized ==
    [][/\ LastSynchronizeReturned =>
             SynchronizedRange(RoundQueue', QMinimumFrequency(RoundQueue), TP', T',
                               q_op.AB, QAt(RoundQueue, q_op.AB))
       /\ (SynchroOrRemoveReturned /\ CalledEl.F_ab <= CalledEl.L_ab \div 2) =>
             SynchronizedRange(RoundQueue', QMinimumFrequency(RoundQueue), TP', T',
                               q_op'.call, CalledEl)]_vars

\* a call of synchro_or_remove_pair has synchronized a pair that stays in the
\* queue, and has found a run of another pair that is now in the queue
C29_Witness ==
    /\ InSecondLoop
    /\ q_op.call # nullpair
    /\ q_op.q_el.F_ab <= q_op.q_el.L_ab \div 2
    /\ QContains(RoundQueue, q_op.call)
    /\ \E j \in q_op.q_el.P_ab..(q_op.q_el.P_ab + q_op.q_el.L_ab - 1) :
          /\ pair_starting_at(T, tp_at(TP, j)) \notin {q_op.call, nullpair}
          /\ QueuedAs(RoundQueue, pair_starting_at(T, tp_at(TP, j)), j,
                      RunLength(T, TP, j, q_op.q_el.P_ab + q_op.q_el.L_ab,
                                pair_starting_at(T, tp_at(TP, j))))

\* the pairs of the symbols in use
RoundPairs == (0..X) \X (0..X)

\* the queue Q1 is Q0 without ab: every other pair keeps its entry
OnlyRemoved(Q0, Q1, ab) ==
    /\ ~QContains(Q1, ab)
    /\ \A XY \in RoundPairs \ {ab} :
          /\ QContains(Q1, XY) = QContains(Q0, XY)
          /\ QContains(Q0, XY) =>
                /\ QAtOk(Q1, XY) = QAtOk(Q0, XY)
                /\ QAtOk(Q0, XY) => QAt(Q1, XY) = QAt(Q0, XY)

\* tp1 is tp0 with the range [p, end) rearranged, and the range is clustered
Reclustered(tp0, tp1, t, p, end) ==
    /\ tp_size(tp1) = tp_size(tp0)
    /\ \A k \in 0..(tp_size(tp0) - 1) : (k < p \/ k >= end) => tp_at(tp1, k) = tp_at(tp0, k)
    /\ \A k \in p..(end - 1) : TpCount(tp1, p, end, tp_at(tp0, k)) = TpCount(tp0, p, end, tp_at(tp0, k))
    /\ ClusteredRange(tp1, t, p, end)

\* C30: synchro_or_remove_pair on a queued pair ab leaves the queue and TP
\* unchanged when F_ab > L_ab/2 and F_ab >= the minimum frequency; removes ab
\* and changes nothing else when F_ab > L_ab/2 and F_ab < the minimum
\* frequency; and re-clusters and synchronizes ab's range exactly when
\* F_ab <= L_ab/2.
C30_SynchroOrRemove ==
    [][SynchroOrRemoveReturned =>
          /\ T' = T
          /\ (/\ CalledEl.F_ab > CalledEl.L_ab \div 2
              /\ CalledEl.F_ab >= QMinimumFrequency(RoundQueue)) =>
                 RoundQueue' = RoundQueue /\ TP' = TP
          /\ (/\ CalledEl.F_ab > CalledEl.L_ab \div 2
              /\ CalledEl.F_ab < QMinimumFrequency(RoundQueue)) =>
                 OnlyRemoved(RoundQueue, RoundQueue', q_op'.call) /\ TP' = TP
          /\ CalledEl.F_ab <= CalledEl.L_ab \div 2 =>
                 /\ Reclustered(TP, TP', T, CalledEl.P_ab, CalledEl.P_ab + CalledEl.L_ab)
                 /\ SynchronizedRange(RoundQueue', QMinimumFrequency(RoundQueue), TP', T',
                                      q_op'.call, CalledEl)]_vars

\* a call of synchro_or_remove_pair has removed a pair whose record had
\* F_ab > L_ab/2 and F_ab below the minimum frequency, and the queue still
\* holds another pair
C30_Witness ==
    /\ InSecondLoop
    /\ q_op.call # nullpair
    /\ q_op.q_el.F_ab > q_op.q_el.L_ab \div 2
    /\ q_op.q_el.F_ab < QMinimumFrequency(RoundQueue)
    /\ ~QContains(RoundQueue, q_op.call)
    /\ \E XY \in RoundPairs : QContains(RoundQueue, XY)

\* a call of synchro_or_remove_pair has left a pair with F_ab > L_ab/2 and
\* F_ab >= the minimum frequency as it was
SynchroOrRemoveKept ==
    /\ InSecondLoop
    /\ q_op.call # nullpair
    /\ q_op.q_el.F_ab > q_op.q_el.L_ab \div 2
    /\ q_op.q_el.F_ab >= QMinimumFrequency(RoundQueue)
    /\ QContains(RoundQueue, q_op.call)
    /\ QAt(RoundQueue, q_op.call).F_ab < QAt(RoundQueue, q_op.call).L_ab

\* the positions of AB's range that the first loop has replaced
ReplacedPositions ==
    {tp_at(TP, j) : j \in {k \in q_op.P_AB..(q_op.P_AB + q_op.L_AB - 1) :
                              text_at(T, tp_at(TP, k)) = X}}

\* the pairs (x,A) and (B,y) around the occurrence of AB at i in the text t0
ContextxA(t0, i) == pair_ending_at(t0, i)
ContextBy(t0, i) == next_pair(t0, i)

\* C31: in the second loop of a round for AB, the two pairs handed to
\* synchro_or_remove_pair for a replaced position are exactly the pairs
\* (x,A) and (B,y) that were adjacent to that occurrence of AB in the text
\* before the round started (a left neighbour that now reads X is taken as B,
\* a right neighbour that now reads X is taken as A); and every pair that the
\* first loop has decreased and left in the queue is visited by
\* synchro_or_remove_pair before the round ends.
C31_ResyncPairs ==
    InSecondLoop =>
        /\ \A i \in ReplacedPositions :
              /\ pair_starting_at(q_op.T_start, i) = q_op.AB
              /\ disappeared_xA(T, i, q_op.AB, X) = ContextxA(q_op.T_start, i)
              /\ disappeared_By(T, i, q_op.AB, X) = ContextBy(q_op.T_start, i)
        /\ q_op.call # nullpair =>
              /\ q_op.i \in ReplacedPositions
              /\ q_op.call = IF q_op.half = 1
                             THEN ContextBy(q_op.T_start, q_op.i)
                             ELSE ContextxA(q_op.T_start, q_op.i)
        /\ q_op.j >= q_op.P_AB + q_op.L_AB => q_op.still_queued \subseteq q_op.visited

\* the second loop has ended after a call on a pair (B,A) taken from a
\* neighbour that reads X, and every decreased pair has been visited
C31_Witness ==
    /\ InSecondLoop
    /\ q_op.j >= q_op.P_AB + q_op.L_AB
    /\ q_op.still_queued # {}
    /\ <<q_op.AB[2], q_op.AB[1]>> \in q_op.visited
    /\ \E i \in ReplacedPositions :
          \/ pair_starting_at(T, i) # nullpair /\ pair_starting_at(T, i)[2] = X
          \/ pair_ending_at(T, i) # nullpair /\ pair_ending_at(T, i)[1] = X

\* no live position of the text t starts the pair AB
NoLiveOccurrence(t, AB) ==
    \A i \in 0..(text_size(t) - 1) : pair_starting_at(t, i) # AB

\* the first loop has been over the whole range of AB: no entry of the range
\* starts AB any more, and some entry has been replaced
WholeRangeReplaced ==
    /\ \A k \in q_op.P_AB..(q_op.P_AB + q_op.L_AB - 1) :
          pair_starting_at(T, tp_at(TP, k)) # q_op.AB
    /\ \E k \in q_op.P_AB..(q_op.P_AB + q_op.L_AB - 1) :
          /\ pair_starting_at(q_op.T_start, tp_at(TP, k)) = q_op.AB
          /\ text_at(T, tp_at(TP, k)) = X

\* the entries of AB's range are the same in the next state
RangeOfABKept ==
    \A k \in q_op.P_AB..(q_op.P_AB + q_op.L_AB - 1) : tp_at(TP', k) = tp_at(TP, k)

\* C32: in every substitution round for AB the first loop has visited the
\* whole range TP[P_AB .. P_AB+L_AB) before the first call of
\* synchro_or_remove_pair of the round, and at that moment no live text
\* position starts an occurrence of AB; the range of AB is re-clustered only
\* after the last call of synchro_or_remove_pair of the round.
C32_PassOrder ==
    [][/\ (InSecondLoop /\ q_op.visited = {}) =>
              /\ WholeRangeReplaced
              /\ NoLiveOccurrence(T, q_op.AB)
       /\ (InSecondLoop /\ q_op.j < q_op.P_AB + q_op.L_AB) =>
              /\ InSecondLoop'
              /\ T' = T
              /\ pc' # "abort" => RangeOfABKept]_vars

\* the first loop has replaced several occurrences of AB, a call of
\* synchro_or_remove_pair has rearranged TP, and the second loop goes on
C32_Witness ==
    /\ InSecondLoop
    /\ q_op.j < q_op.P_AB + q_op.L_AB
    /\ q_op.call # nullpair
    /\ q_op.q_el.F_ab <= q_op.q_el.L_ab \div 2
    /\ Cardinality(ReplacedPositions) >= 2
    /\ \E k \in q_op.q_el.P_ab..(q_op.q_el.P_ab + q_op.q_el.L_ab - 2) :
          tp_at(TP, k) > tp_at(TP, k+1)

\* the hash of the low-frequency queue and its lists agree
LfHashConsistent ==
    /\ lf_size(q) = Cardinality(DOMAIN q.H)
    /\ \A ab \in DOMAIN q.H :
          /\ lf_coord_ok(q, ab)
          /\ ll_at(lf_list(q, q.H[ab][1]), q.H[ab][2]).ab = ab
          /\ lf_at(q, ab).F_ab = q.H[ab][1]

\* the hash of the high-frequency queue and its list B agree
HfHashConsistent ==
    /\ hfq_size(q) = Cardinality(DOMAIN q.H)
    /\ \A ab \in DOMAIN q.H :
          /\ q.H[ab] < ll_capacity(q.B)
          /\ ~is_null(ll_at(q.B, q.H[ab]))
          /\ ll_at(q.B, q.H[ab]).ab = ab

\* C33: in both queues, after any sequence of insert, decrease and remove
\* (removals that compact the arena included) the call returns, every
\* contained pair's hash entry points to the slot that holds the record of
\* the pair (for the low-frequency queue in the list of its frequency), no
\* hash entry points to an empty slot and size() is the number of pairs
C33_HashConsistent ==
    /\ pc # "abort"
    /\ pc = "queue" => LfHashConsistent
    /\ pc = "arena" => HfHashConsistent

\* the next live position after i, found by a scan of the bitmap
ThfNextLive(t, i) == next_non_blank_position_trivial(t, i)

\* the slot T[i+1] of a live position i holds the symbol at the next live
\* position, or the end-of-text marker
ThfSlotHoldsNext(t, i) ==
    i + 1 < thf_size(t) =>
        t.T[i+2] = IF ThfNextLive(t, i) = NULL THEN t.eof % (2 ^ 16)
                   ELSE t.T[ThfNextLive(t, i) + 1]

\* C34: after any sequence of replace calls on the bitmap text, for every
\* live position i with i+1 < n the slot T[i+1] holds the symbol at the next
\* live position after i (the end-of-text marker when i is the last live
\* position), and pair_starting_at(i) returns the pair of pair_starting_at_1(i)
C34_SlotHoldsNext ==
    \A i \in 0..(thf_size(T) - 1) :
        /\ ~thf_is_blank(T, i) => ThfSlotHoldsNext(T, i)
        /\ thf_pair_starting_at(T, i) = thf_pair_starting_at_1(T, i)

\* a live position i followed by a blank, whose next live position was
\* replaced later by a newer symbol than the one at i, and a last live
\* position followed by blanks
C34_Witness ==
    /\ pc = "text_hf"
    /\ \E i \in 0..(thf_size(T) - 3) :
          /\ ~thf_is_blank(T, i) /\ thf_is_blank(T, i + 1)
          /\ ThfNextLive(T, i) # NULL
          /\ T.T[i+1] >= Len(A)
          /\ T.T[ThfNextLive(T, i) + 1] > T.T[i+1]
          /\ thf_pair_starting_at(T, i) = <<T.T[i+1], T.T[ThfNextLive(T, i) + 1]>>
    /\ \E i \in 0..(thf_size(T) - 2) :
          /\ ~thf_is_blank(T, i) /\ ThfNextLive(T, i) = NULL
          /\ thf_pair_starting_at(T, i) = thf_blank_pair

\* C35: every call of the counting sort sort(i, j) returns with every entry
\* of the scratch table H equal to (0,0), for any range and any state of the
\* text, so a call starts from the table of the first call and its result
\* does not depend on the calls before it
C35_ScratchRestored ==
    pc = "sort" =>
        /\ TP.H = EmptyH
        /\ \A a, b \in 0..get_max_symbol(X) : HGet(TP.H, <<a, b>>) = <<0, 0>>

\* the counting sort has moved entries of a text with blank positions and
\* with at least two different pairs
C35_Witness ==
    /\ pc = "sort"
    /\ get_max_symbol(X) < table_size
    /\ X > Len(A)
    /\ \E k \in 0..(tp_size(TP) - 2) : tp_at(TP, k) > tp_at(TP, k+1)
    /\ \E k, m \in 0..(text_size(T) - 1) :
          /\ pair_starting_at(T, k) # nullpair
          /\ pair_starting_at(T, m) # nullpair
          /\ pair_starting_at(T, k) # pair_starting_at(T, m)

\* C36: during the low-frequency phase the queue never holds the records
\* of more than n/B pairs at the same time, with B = 50
C36_InsertCap ==
    (LFQ # None /\ pc \in {"lf", "lf_loop"}) => lf_size(LFQ) <= Len(w) \div B

\* compute_repair: the largest possible high-frequency dictionary symbol
max_d(n) == 256 + n \div min_high_frequency(n)

\* the symbols of the live text and of the pairs of the high-frequency queue
HfSymbols ==
    {text_at(T, i) : i \in {k \in 0..(text_size(T) - 1) : ~is_blank(T, k)}}
        \cup {ab[1] : ab \in DOMAIN HFQ.H} \cup {ab[2] : ab \in DOMAIN HFQ.H}

InHighFrequency == pc \in {"hf", "hf_loop"}

\* C37: the high-frequency phase performs at most n/tau substitution rounds,
\* so every symbol of the text or of a queued pair during that phase is
\* smaller than max_d = 256 + n/tau (with an alphabet of sigma <= 256
\* symbols: smaller than sigma + n/tau)
C37_SymbolBound ==
    InHighFrequency =>
        /\ rounds <= Len(w) \div min_high_frequency(Len(w))
        /\ \A c \in HfSymbols :
              /\ c < Len(A) + Len(w) \div min_high_frequency(Len(w))
              /\ c < max_d(Len(w))

\* the high-frequency phase has made as many rounds as n/tau allows, and
\* the symbol of the last round is in the text
C37_Witness ==
    /\ pc = "hf"
    /\ rounds >= 2
    /\ rounds = Len(w) \div min_high_frequency(Len(w))
    /\ X - 1 \in HfSymbols

\* a substitution round has returned
RoundReturned == Len(G') = Len(G) + 1 /\ pc' # "abort"

\* compute_repair has left its two loops
RepairEnded == pc \notin {"start", "hf", "lf"}

\* C38: repair terminates on every input: each substitution round replaces
\* at least one occurrence of the selected pair, so the number of live
\* positions decreases strictly from round to round, and the number of
\* rounds of the two phases together is at most n-1
C38_Terminates ==
    /\ [][RoundReturned =>
             number_of_non_blank_characters(T') < number_of_non_blank_characters(T)]_vars
    /\ [](Len(G) <= IF Len(w) = 0 THEN 0 ELSE Len(w) - 1)
    /\ <>RepairEnded

\* a run with rounds in both phases has ended
C38_Witness ==
    /\ pc = "dec"
    /\ Len(G) >= 3
    /\ \E k \in 1..Len(w) : is_blank(T, k-1)
    /\ rounds >= 1 /\ rounds < Len(G)

\* C39: after every substitution round the next unused non-terminal X is
\* sigma + |G|, and the two symbols of every production G[k] are smaller
\* than sigma + k, the non-terminal that G[k] defines: a production uses
\* terminals and earlier non-terminals only, so the grammar is acyclic
C39_Acyclic ==
    (BetweenRounds \/ Compressed) =>
        /\ X = Len(A) + Len(G)
        /\ \A k \in 1..Len(G) :
              /\ G[k][1] < Len(A) + (k-1)
              /\ G[k][2] < Len(A) + (k-1)

\* repair has returned a grammar in which a production is made of two
\* non-terminals and another one of the non-terminal minted just before it
C39_Witness ==
    /\ pc = "done"
    /\ \E k \in 1..Len(G) : G[k][1] >= Len(A) /\ G[k][2] >= Len(A)
    /\ \E k \in 2..Len(G) : Len(A) + (k-2) \in SymbolsOf(G[k])

\* the step of compute_repair that leaves the high-frequency loop and
\* stores all text positions in TP before it builds the low-frequency queue
RefillStep == pc = "hf" /\ pc' # "hf" /\ LFQ' # None

\* TP holds every text position 0,...,n-1 exactly once
AllTextPositions(tp) ==
    /\ Len(tp.TP) = text_size(T)
    /\ \A p \in 0..(text_size(T) - 1) : \E k \in DOMAIN tp.TP : tp.TP[k] = p

\* C40: TP is refilled with all text positions once per run, in a step taken
\* when max() of the high-frequency queue is the null pair; from that step
\* on the high-frequency queue is never updated, the high-frequency loop is
\* never entered again and TP keeps all text positions; every run that is
\* not stopped by a failed assertion reaches the refill
C40_SingleRefill ==
    /\ [][RefillStep =>
             /\ LFQ = None
             /\ QMax(HFQ) = nullpair
             /\ AllTextPositions(TP')]_vars
    /\ [][(LFQ = None /\ LFQ' # None) => RefillStep]_vars
    /\ [][LFQ # None =>
             /\ HFQ' = HFQ
             /\ LFQ' # None
             /\ pc' \notin {"start", "hf"}
             /\ AllTextPositions(TP')]_vars
    /\ <>(LFQ # None \/ pc = "abort")

\* rounds of the high-frequency phase were followed by the refill and by
\* rounds of the low-frequency phase
C40_Witness ==
    /\ pc = "lf"
    /\ LFQ # None
    /\ rounds > 0
    /\ Len(G) > rounds
    /\ QMax(HFQ) = nullpair

====
